---------------------------- MODULE Spec2Model ----------------------------
(***************************************************************************)
(* Model of the video composition timeline engine in src/video_creation:   *)
(*   - utils/timing.py        : duration policy                            *)
(*   - core/scene_builder.py  : scene construction                         *)
(*   - core/video_composer.py : timeline resolution (transitions)          *)
(*   - video_mixer/mixed_composer.py : timeline by plain concatenation     *)
(*   - effects/text_animator_v2.py   : text animation frame generation     *)
(*   - core/config_loader.py, main.py : configuration loading and the CLI  *)
(*   - effects/motion.py, effects/transitions.py, utils/easing.py :        *)
(*     background motion, slide offsets, easing presets                    *)
(*   - utils/helpers.py, video_mixer/video_utils.py,                       *)
(*     video_mixer/mixed_scene_builder.py : positions, video backgrounds   *)
(* and of the polling loop of src/veo_direct.py.                           *)
(*                                                                         *)
(* Time is counted in ticks of 1/Sec second, so that every quantity the    *)
(* code computes on the inputs drawn below (k/1.8, 0.4*k, 0.5*d) is an     *)
(* integer number of ticks.                                                *)
(***************************************************************************)
EXTENDS Integers, Sequences, FiniteSets, TLC

Sec == 180

\* ------------------------------------------------------------------ bounds
MaxTextLen == 6
MaxWords == 11
MaxOverlays == 2
MaxScenes == 3
MaxCfgScenes == 2
MaxCfgOverlays == 1
MaxFrameSide == 5

VARIABLES
    \* utils/timing.py, calculate_text_duration
    text,            \* the argument: a string, as a sequence of characters
    text_result,     \* the value returned (ticks); 0 before the call
    text_pc,
    \* core/scene_builder.py, build_scene
    scene_data,      \* the scene configuration dictionary
    scene_duration,  \* the local `duration` of build_scene
    background_clip, \* the local `background_clip` of build_scene
    overlay_clips,   \* the local `overlay_clips` of build_scene
    scene_clip,      \* the clip build_scene returns
    scene_pc,
    \* core/video_composer.py, _apply_transitions;
    \* video_mixer/mixed_composer.py, _concatenate_scenes
    composer,        \* "video" (VideoComposer) or "mixed" (MixedComposer)
    scene_clips,     \* the argument: per scene, the built clip and its config
    tl_pc,
    i,               \* the loop index (1-based here)
    current_time,    \* local of _apply_transitions
    trans_duration,  \* local of _apply_transitions
    w,               \* local of _apply_transitions: the width of clip.size
    timeline_clips,  \* local of _apply_transitions: the clips placed so far
    final_clip,      \* the clip returned
    \* effects/text_animator_v2.py, TextAnimator.generate_animation_frames
    composer_fps,    \* self.fps of the composer: the configuration's 'fps'
    builder,         \* the class that creates the animator
    animator,        \* the TextAnimator: width, height, fps
    anim_args,       \* text_img size, animation, duration, start_time, pos_x, pos_y
    anim_pc,
    generator,       \* the _animate_* method dispatched to
    total_frames,    \* local of generate_animation_frames
    frames,          \* the list of frames generated so far
    \* main.py, VideoCreatorCLI.create_video; core/config_loader.py, ConfigLoader
    raw_config,      \* the JSON document read from the configuration file
    loaded_config,   \* the processed configuration load returns
    errors,          \* ConfigLoader.errors
    warnings,        \* ConfigLoader.warnings
    cli_pc,          \* position of create_video / VideoComposer.compose
    load_error,      \* the exception load raised, "none" if it returned
    built,           \* the number of scene clips built by _build_all_scenes
    exported,        \* whether write_videofile has been called
    \* core/video_composer.py and video_mixer/mixed_composer.py, compose
    compose_class,   \* "VideoComposer" or "MixedComposer"
    compose_config,  \* self.config: the scenes, the audio track, the fades
    compose_pc,      \* the stage compose is about to run
    compose_clips,   \* the local `scene_clips` of compose
    final_video,     \* the local `final_video` of compose
    opened,          \* the clips opened so far
    closed,          \* the clips close() has been called on
    output_file,     \* the file at output_path: "absent", "partial", "complete"
    stages,          \* the stages run so far, in order
    compose_error,   \* the stage that raised, "none" if none did
    \* effects/text_animator_v2.py, _parse_position; utils/helpers.py,
    \* parse_position
    frame_size,      \* (width, height)
    position,        \* the 'position' value of an overlay
    animator_xy,     \* what TextAnimator._parse_position returned
    helpers_xy,      \* what helpers.parse_position returned
    pos_pc,
    \* video_mixer/video_utils.py, load_video;
    \* video_mixer/mixed_scene_builder.py, build_scene for a video scene
    video_config,    \* the scene configuration of a video scene
    video_clip,      \* the local `clip` of load_video
    video_ops,       \* the operations applied to the clip, in order
    video_duration,  \* the local `duration` of build_scene
    video_pc,
    \* effects/motion.py, create_parallax_effect
    parallax_args,   \* the arguments: clip (its size), duration, depth
    zoomed,          \* the size of the local `zoomed`
    parallax_pos,    \* what get_position returned for the time it was called with
    parallax_pc,
    \* core/config_loader.py, a ConfigLoader whose load is called again
    reloads,         \* the number of calls of load after the first
    \* veo_direct.py, wait_for_completion
    operation,       \* the long-running operation as last fetched
    poll_count,      \* local of wait_for_completion
    wait_returned,   \* what the function returned, and why
    wait_pc

vars == <<text, text_result, text_pc,
          scene_data, scene_duration, background_clip, overlay_clips,
          scene_clip, scene_pc,
          composer, scene_clips, tl_pc, i, current_time, trans_duration, w,
          timeline_clips, final_clip,
          composer_fps, builder, animator, anim_args, anim_pc, generator,
          total_frames, frames,
          raw_config, loaded_config, errors, warnings, cli_pc, load_error, built,
          exported,
          compose_class, compose_config, compose_pc, compose_clips, final_video,
          opened, closed, output_file, stages, compose_error,
          frame_size, position, animator_xy, helpers_xy, pos_pc,
          video_config, video_clip, video_ops, video_duration, video_pc,
          parallax_args, zoomed, parallax_pos, parallax_pc,
          reloads, operation, poll_count, wait_returned, wait_pc>>

Max(a, b) == IF a >= b THEN a ELSE b
Min(a, b) == IF a <= b THEN a ELSE b

\* ------------------------------------------------------- strings (Python)
Whitespace == {" ", "\n"}
Chars == {"a"} \cup Whitespace

\* str.strip(): drop leading and trailing whitespace
RECURSIVE lstrip(_)
lstrip(s) ==
    IF s = <<>> THEN <<>>
    ELSE IF Head(s) \in Whitespace THEN lstrip(Tail(s)) ELSE s

RECURSIVE rstrip(_)
rstrip(s) ==
    IF s = <<>> THEN <<>>
    ELSE IF s[Len(s)] \in Whitespace THEN rstrip(SubSeq(s, 1, Len(s) - 1)) ELSE s

strip(s) == rstrip(lstrip(s))

\* the first whitespace-delimited token of a string without leading whitespace
RECURSIVE first_token(_)
first_token(s) ==
    IF s = <<>> \/ Head(s) \in Whitespace THEN <<>>
    ELSE <<Head(s)>> \o first_token(Tail(s))

\* str.split() with no separator: the list of maximal runs of non-whitespace
RECURSIVE split(_)
split(s) ==
    LET t == lstrip(s) IN
    IF t = <<>> THEN <<>>
    ELSE LET tok == first_token(t) IN
         <<tok>> \o split(SubSeq(t, Len(tok) + 1, Len(t)))

\* a text of n one-letter words separated by single spaces
RECURSIVE WordsText(_)
WordsText(n) ==
    IF n = 0 THEN <<>>
    ELSE IF n = 1 THEN <<"a">>
    ELSE WordsText(n - 1) \o <<" ", "a">>

\* ------------------------------------------------- utils/timing.py
words_per_second_x10 == 18
min_duration == 4 * Sec
max_duration == 10 * Sec
animation_buffer == (15 * Sec) \div 10
comprehension_per_word == (4 * Sec) \div 10
base_duration == (45 * Sec) \div 10
breathing_room == Sec

\* the comprehension time per word before the update (0.3 s, line 27)
calculate_text_duration_old(txt) ==
    IF txt = <<>> \/ strip(txt) = <<>> THEN min_duration
    ELSE LET word_count == Len(split(txt))
             reading_time == (word_count * Sec * 10) \div words_per_second_x10
             comprehension_time == word_count * ((3 * Sec) \div 10)
             calculated_duration == reading_time + animation_buffer + comprehension_time
         IN Max(min_duration, Min(calculated_duration, max_duration))

calculate_text_duration(txt) ==
    IF txt = <<>> \/ strip(txt) = <<>> THEN min_duration
    ELSE LET word_count == Len(split(txt))
             reading_time == (word_count * Sec * 10) \div words_per_second_x10
             comprehension_time == word_count * comprehension_per_word
             calculated_duration == reading_time + animation_buffer + comprehension_time
         IN Max(min_duration, Min(calculated_duration, max_duration))

\* the loop keeping the last text overlay's duration instead of the longest
RECURSIVE longest_text_last(_, _)
longest_text_last(overlays, acc) ==
    IF overlays = <<>> THEN [raised |-> FALSE, value |-> acc]
    ELSE LET overlay == Head(overlays) IN
         IF overlay.type = "text"
         THEN IF ~overlay.has_text THEN [raised |-> TRUE, value |-> 0]
              ELSE longest_text_last(Tail(overlays), calculate_text_duration(overlay.text))
         ELSE longest_text_last(Tail(overlays), acc)

\* the loop over the overlays (lines 48-53): the running maximum, or a
\* KeyError raised by overlay['text'] when a text overlay has no 'text' key
RECURSIVE longest_text(_, _)
longest_text(overlays, acc) ==
    IF overlays = <<>> THEN [raised |-> FALSE, value |-> acc]
    ELSE LET overlay == Head(overlays) IN
         IF overlay.type = "text"
         THEN IF ~overlay.has_text THEN [raised |-> TRUE, value |-> 0]
              ELSE longest_text(Tail(overlays),
                                Max(acc, calculate_text_duration(overlay.text)))
         ELSE longest_text(Tail(overlays), acc)

\* scene_data.get('overlays', [])
get_overlays(sd) == IF sd.has_overlays THEN sd.overlays ELSE <<>>

\* the manual-duration test accepting 0 as an explicit duration
calculate_scene_duration_ge(sd) ==
    IF sd.has_duration /\ sd.duration >= 0
    THEN [raised |-> FALSE, value |-> sd.duration]
    ELSE LET max_text_duration == longest_text(get_overlays(sd), base_duration) IN
         IF max_text_duration.raised THEN max_text_duration
         ELSE IF get_overlays(sd) # <<>>
              THEN [raised |-> FALSE, value |-> max_text_duration.value + breathing_room]
              ELSE max_text_duration

calculate_scene_duration(sd) ==
    IF sd.has_duration /\ sd.duration > 0
    THEN [raised |-> FALSE, value |-> sd.duration]
    ELSE LET max_text_duration == longest_text(get_overlays(sd), base_duration) IN
         IF max_text_duration.raised THEN max_text_duration
         ELSE IF get_overlays(sd) # <<>>
              THEN [raised |-> FALSE, value |-> max_text_duration.value + breathing_room]
              ELSE max_text_duration

\* ---------------------------------------------------------------- inputs
SeqsUpTo(S, n) == UNION {[1..k -> S] : k \in 0..n}

TextInputs == SeqsUpTo(Chars, MaxTextLen) \cup {WordsText(n) : n \in 0..MaxWords}

OverlayTexts == {WordsText(n) : n \in 0..MaxWords} \cup {<<" ">>}

\* a text overlay with a 'text' key, a text overlay with 'lines' only, an
\* image whose file exists, an image whose file does not
Overlays ==
    {[type |-> "text", has_text |-> TRUE, text |-> t, path_exists |-> FALSE] :
        t \in OverlayTexts}
    \cup {[type |-> "text", has_text |-> FALSE, text |-> <<>>, path_exists |-> FALSE]}
    \cup {[type |-> "image", has_text |-> FALSE, text |-> <<>>, path_exists |-> pe] :
            pe \in BOOLEAN}

\* the 'background_effect' key: absent, without 'type', or of one of the kinds
EffectTypes == {"static", "kenBurns", "parallax", "pulse", "zoom_pulse"}
NoEffect == [has_type |-> FALSE, type |-> "none"]
EffectConfigs == {NoEffect} \cup {[has_type |-> TRUE, type |-> ty] : ty \in EffectTypes}

\* the 'duration' key: absent, 0 ("auto"), or an explicit number of seconds
SceneDurations == {0, 3 * Sec, 12 * Sec}

SceneInputs ==
    {[has_duration |-> hd, duration |-> d, has_overlays |-> ho, overlays |-> ovs,
      has_background_effect |-> FALSE, background_effect |-> NoEffect] :
        hd \in BOOLEAN, d \in SceneDurations, ho \in BOOLEAN,
        ovs \in SeqsUpTo(Overlays, MaxOverlays)}

\* scenes that set 'background_effect', with one overlay of each kind
LayerOverlays ==
    {ov \in Overlays : ov.type = "text" => (ov.has_text => ov.text = WordsText(2))}
LayerInputs ==
    {[has_duration |-> hd, duration |-> IF hd THEN 3 * Sec ELSE 0,
      has_overlays |-> ovs # <<>>, overlays |-> ovs,
      has_background_effect |-> hb, background_effect |-> IF hb THEN be ELSE NoEffect] :
        hd \in BOOLEAN, ovs \in SeqsUpTo(LayerOverlays, MaxOverlays),
        hb \in BOOLEAN, be \in EffectConfigs}

NoScene == [has_duration |-> FALSE, duration |-> 0, has_overlays |-> FALSE,
            overlays |-> <<>>,
            has_background_effect |-> FALSE, background_effect |-> NoEffect]
NoClip == [duration |-> 0, layers |-> 0]
\* a clip of build_scene: its kind, and for the background the functions of
\* time attached to it by resize and set_position ("none": not attached)
NoBackground == [kind |-> "none", duration |-> 0, resize |-> "none", position |-> "none"]
None == [kind |-> "None"]

\* the scene list handed to the composer: each entry is a built clip (its
\* duration) and the scene's config (its optional 'transition')
ClipDurations == {2 * Sec, 5 * Sec, 6 * Sec}
TransitionTypes == {"crossfade", "slide", "zoom"}
RequestedDurations == {Sec, 4 * Sec}
NoTransition == [type |-> "none", has_duration |-> FALSE, duration |-> 0]
TransitionConfigs ==
    {[type |-> ty, has_duration |-> hd, duration |-> IF hd THEN d ELSE 0] :
        ty \in TransitionTypes, hd \in BOOLEAN, d \in RequestedDurations}
SceneClipInputs ==
    {[duration |-> d, has_transition |-> FALSE, transition |-> NoTransition] :
        d \in ClipDurations}
    \cup {[duration |-> d, has_transition |-> TRUE, transition |-> tc] :
        d \in ClipDurations, tc \in TransitionConfigs}

NoFinalClip == [start |-> 0, duration |-> 0]

IdleTimeline ==
    /\ composer = "idle" /\ scene_clips = <<>> /\ tl_pc = "idle" /\ i = 0
    /\ current_time = 0 /\ trans_duration = 0 /\ w = 0 /\ timeline_clips = <<>>
    /\ final_clip = NoFinalClip

\* the animator SceneBuilder creates (scene_builder.py:135) and the arguments
\* create_animated_text passes to generate_animation_frames
animator_fps == 30
\* video_composer.py line 21 and mixed_composer.py line 18: config.get('fps', 30)
ConfigFps == {24, 30}
Builders == {"SceneBuilder", "MixedSceneBuilder"}
FrameSizes == {<<1184, 864>>, <<640, 360>>}
TextImageSizes == {<<300, 120>>, <<1400, 200>>}
AnimationNames == {"fade_in", "slide_left", "slide_right", "slide_bottom",
                   "slide_top", "scale_in", "pop", "typewriter"}
\* 1.0 s, 1.45 s, 2.0 s, and the 6.32 s of a scene with one four-word text
AnimDurations == {Sec, (145 * Sec) \div 100, 2 * Sec,
                  calculate_text_duration(WordsText(4)) + breathing_room}
StartTimes == {0, (45 * Sec) \div 100, Sec \div 2, 3 * Sec}

NoAnimator == [width |-> 0, height |-> 0, fps |-> 0]
NoAnimArgs == [img_w |-> 0, img_h |-> 0, animation |-> "none", duration |-> 0,
               start_time |-> 0, pos_x |-> 0, pos_y |-> 0]

IdleAnimator ==
    /\ composer_fps = 0 /\ builder = "none"
    /\ animator = NoAnimator /\ anim_args = NoAnimArgs /\ anim_pc = "idle"
    /\ generator = "none" /\ total_frames = 0 /\ frames = <<>>

\* the configuration documents: an overlay may lack 'type'; a text overlay
\* carries 'text', 'lines', or neither; an image overlay carries a 'path'
\* (of a file that exists or not) or none
NoOverlayFields == [has_type |-> FALSE, type |-> "none", has_text |-> FALSE,
                    has_lines |-> FALSE, has_path |-> FALSE, path_exists |-> FALSE,
                    has_animation |-> FALSE, animation |-> "none",
                    has_start_time |-> FALSE, start_time |-> 0]
OverlayConfigs ==
    {NoOverlayFields}
    \cup {[NoOverlayFields EXCEPT !.has_type = TRUE, !.type = "text",
                                  !.has_text = ht, !.has_lines = hl] :
            ht \in BOOLEAN, hl \in BOOLEAN}
    \cup {[NoOverlayFields EXCEPT !.has_type = TRUE, !.type = "image",
                                  !.has_path = hp, !.path_exists = hp /\ pe] :
            hp \in BOOLEAN, pe \in BOOLEAN}
\* a 'background_effect' or 'transition' dictionary: its optional 'type'
NoKind == [has_type |-> FALSE, type |-> "none"]
NoSceneFields == [has_image_path |-> FALSE, image_exists |-> FALSE,
                  has_overlays |-> FALSE, overlays |-> <<>>,
                  has_background_effect |-> FALSE, background_effect |-> NoKind,
                  has_transition |-> FALSE, transition |-> NoKind,
                  has_duration |-> FALSE, duration |-> 0]
SceneConfigs ==
    {[NoSceneFields EXCEPT !.has_image_path = hp, !.image_exists = hp /\ ie,
                           !.has_overlays = ho,
                           !.overlays = IF ho THEN ovs ELSE <<>>] :
        hp \in BOOLEAN, ie \in BOOLEAN, ho \in BOOLEAN,
        ovs \in SeqsUpTo(OverlayConfigs, MaxCfgOverlays)}
NoConfig == [has_scenes |-> FALSE, scenes |-> <<>>,
             has_audio_path |-> FALSE, audio_exists |-> FALSE]
RawConfigs ==
    {[NoConfig EXCEPT !.has_scenes = hs, !.scenes = IF hs THEN scs ELSE <<>>] :
        hs \in BOOLEAN, scs \in SeqsUpTo(SceneConfigs, MaxCfgScenes)}

\* config_loader.py lines 37-48
VALID_ANIMATIONS == {"fade_in", "slide_bottom", "slide_top", "slide_left",
                     "slide_right", "scale_in", "grow", "typewriter",
                     "word_by_word", "AnimateTextFromLeft",
                     "AnimateTextGrowFromCenter", "AnimateTextFadeInWordByWord"}
VALID_TRANSITIONS == {"fade", "crossfade", "slide", "slideIn", "zoom"}
VALID_MOTIONS == {"static", "kenBurns", "parallax", "pulse", "zoom_pulse"}

\* one-scene documents whose scene sets the optional keys: 'duration',
\* 'background_effect' and 'transition' (without 'type', of a known kind, of
\* an unknown kind), text overlays with 'animation' and 'start_time', and
\* the top-level 'audio_path' (of a file that exists or not)
CfgAnimations == {"slide_left", "bounce", "pop"}
CfgMotions == {"kenBurns", "spin"}
CfgTransitions == {"slide", "wipe"}
CfgStartTimes == {0 - Sec, Sec, 20 * Sec}
CfgSceneDuration == 3 * Sec
KindConfigs(kinds) ==
    {NoKind} \cup {[has_type |-> TRUE, type |-> ty] : ty \in kinds}
LoaderOverlays ==
    {[NoOverlayFields EXCEPT !.has_type = TRUE, !.type = "text",
                             !.has_text = ht,
                             !.has_animation = a # "none", !.animation = a,
                             !.has_start_time = hst,
                             !.start_time = IF hst THEN st ELSE 0] :
        ht \in BOOLEAN, a \in CfgAnimations \cup {"none"},
        hst \in BOOLEAN, st \in CfgStartTimes}
    \cup {[NoOverlayFields EXCEPT !.has_type = TRUE, !.type = "image",
                                  !.has_path = TRUE, !.path_exists = pe] :
            pe \in BOOLEAN}
LoaderScenes ==
    {[NoSceneFields EXCEPT !.has_image_path = TRUE, !.image_exists = ie,
                           !.has_overlays = ovs # <<>>, !.overlays = ovs,
                           !.has_background_effect = hb,
                           !.background_effect = IF hb THEN be ELSE NoKind,
                           !.has_transition = htr,
                           !.transition = IF htr THEN tr ELSE NoKind,
                           !.has_duration = hd,
                           !.duration = IF hd THEN CfgSceneDuration ELSE 0] :
        ie \in BOOLEAN, ovs \in SeqsUpTo(LoaderOverlays, MaxCfgOverlays),
        hb \in BOOLEAN, be \in KindConfigs(CfgMotions),
        htr \in BOOLEAN, tr \in KindConfigs(CfgTransitions), hd \in BOOLEAN}
LoaderConfigs ==
    {[NoConfig EXCEPT !.has_scenes = TRUE, !.scenes = <<sc>>,
                      !.has_audio_path = ha, !.audio_exists = ha /\ ae] :
        sc \in LoaderScenes, ha \in BOOLEAN, ae \in BOOLEAN}

IdleCli ==
    /\ raw_config = NoConfig /\ loaded_config = NoConfig
    /\ errors = <<>> /\ warnings = <<>>
    /\ cli_pc = "idle" /\ load_error = "none" /\ built = 0 /\ exported = FALSE

\* compose: the configuration, the final clip and its audio track
NoAudio == [duration |-> 0, fadeout |-> 0, loops |-> 0]
NoComposeConfig == [scenes |-> <<>>, has_audio_path |-> FALSE, audio_exists |-> FALSE,
                    audio_duration |-> 0, intro_fade |-> 0, outro_fade |-> 0]
NoFinalVideo == [duration |-> 0, has_audio |-> FALSE, audio |-> NoAudio,
                 fadein |-> 0, fadeout |-> 0]
IdleCompose ==
    /\ compose_class = "none" /\ compose_config = NoComposeConfig
    /\ compose_pc = "idle" /\ compose_clips = <<>> /\ final_video = NoFinalVideo
    /\ opened = {} /\ closed = {} /\ output_file = "absent" /\ stages = <<>>
    /\ compose_error = "none"

\* position parsing: a coordinate is a string, a float or an int
NoCoordinate == [kind |-> "none", str |-> "", twice |-> 0]
NoPosition == [is_list |-> FALSE, str |-> "", x |-> NoCoordinate, y |-> NoCoordinate]
IdlePosition ==
    /\ frame_size = <<0, 0>> /\ position = NoPosition
    /\ animator_xy = <<0, 0>> /\ helpers_xy = <<0, 0>> /\ pos_pc = {}

\* video scenes
NoVideoConfig == [has_duration |-> FALSE, duration |-> 0, natural |-> 0,
                  video_start |-> 0, has_video_end |-> FALSE, video_end |-> 0,
                  video_speed_x2 |-> 2]
NoVideoClip == [duration |-> 0]
IdleVideo ==
    /\ video_config = NoVideoConfig /\ video_clip = NoVideoClip /\ video_ops = <<>>
    /\ video_duration = 0 /\ video_pc = "idle"

\* create_parallax_effect before it is called
NoParallaxArgs == [w |-> 0, h |-> 0, duration |-> 0, depth_pct |-> 0]
NoParallaxPos == [called |-> FALSE, t |-> 0, x_num |-> 0, y |-> "center"]
IdleParallax ==
    /\ parallax_args = NoParallaxArgs /\ zoomed = <<0, 0>>
    /\ parallax_pos = NoParallaxPos /\ parallax_pc = "idle"

IdleReload == reloads = 0

\* wait_for_completion before it is called
NoOperation == [done |-> FALSE, error |-> FALSE, response |-> "none"]
IdleWait ==
    /\ operation = NoOperation /\ poll_count = 0
    /\ wait_returned = "nothing" /\ wait_pc = "idle"

IdleExtra == IdleParallax /\ IdleReload /\ IdleWait
IdleOthers == IdleCompose /\ IdlePosition /\ IdleVideo /\ IdleExtra

IdleText == text = <<>> /\ text_result = 0 /\ text_pc = "idle"
IdleScene == /\ scene_data = NoScene /\ scene_duration = 0
             /\ background_clip = NoBackground /\ overlay_clips = <<>>
             /\ scene_clip = NoClip /\ scene_pc = "idle"

textVars == <<text, text_result, text_pc>>
sceneVars == <<scene_data, scene_duration, background_clip, overlay_clips,
               scene_clip, scene_pc>>
timelineVars == <<composer, scene_clips, tl_pc, i, current_time, trans_duration, w,
                  timeline_clips, final_clip>>
animVars == <<composer_fps, builder, animator, anim_args, anim_pc, generator,
             total_frames, frames>>
cliVars == <<raw_config, loaded_config, errors, warnings, cli_pc, load_error, built,
             exported>>
composeVars == <<compose_class, compose_config, compose_pc, compose_clips,
                 final_video, opened, closed, output_file, stages, compose_error>>
positionVars == <<frame_size, position, animator_xy, helpers_xy, pos_pc>>
videoVars == <<video_config, video_clip, video_ops, video_duration, video_pc>>
parallaxVars == <<parallax_args, zoomed, parallax_pos, parallax_pc>>
reloadVars == <<reloads>>
waitVars == <<operation, poll_count, wait_returned, wait_pc>>
extraVars == <<parallaxVars, reloadVars, waitVars>>
otherVars == <<composeVars, positionVars, videoVars, extraVars>>

\* ------------------------------------------ calculate_text_duration(text)
InitText ==
    /\ text \in TextInputs /\ text_result = 0 /\ text_pc = "call"
    /\ IdleScene /\ IdleTimeline /\ IdleAnimator /\ IdleCli /\ IdleOthers

CalculateTextDuration ==
    /\ text_pc = "call"
    /\ text_result' = calculate_text_duration(text)
    /\ text_pc' = "done"
    /\ UNCHANGED <<text, sceneVars, timelineVars, animVars, cliVars, otherVars>>

NextText == CalculateTextDuration
SpecText == InitText /\ [][NextText]_vars

\* ------------------------------------------ SceneBuilder.build_scene
InitScene ==
    /\ scene_data \in SceneInputs
    /\ (~scene_data.has_duration => scene_data.duration = 0)
    /\ (~scene_data.has_overlays => scene_data.overlays = <<>>)
    /\ scene_duration = 0 /\ background_clip = NoBackground /\ overlay_clips = <<>>
    /\ scene_clip = NoClip /\ scene_pc = "start"
    /\ IdleText /\ IdleTimeline /\ IdleAnimator /\ IdleCli /\ IdleOthers

\* build_scene called on a scene that sets 'background_effect'
InitLayers ==
    /\ scene_data \in LayerInputs
    /\ scene_duration = 0 /\ background_clip = NoBackground /\ overlay_clips = <<>>
    /\ scene_clip = NoClip /\ scene_pc = "start"
    /\ IdleText /\ IdleTimeline /\ IdleAnimator /\ IdleCli /\ IdleOthers

\* line 41: duration = calculate_scene_duration(scene_config)
SceneDuration ==
    /\ scene_pc = "start"
    /\ LET r == calculate_scene_duration(scene_data) IN
       IF r.raised
       THEN scene_pc' = "raised" /\ UNCHANGED scene_duration
       ELSE scene_pc' = "timed" /\ scene_duration' = r.value
    /\ UNCHANGED <<scene_data, background_clip, overlay_clips, scene_clip,
                   textVars, timelineVars, animVars, cliVars, otherVars>>

\* an effect dictionary read with a Ken Burns default
EffectTypeKenBurns(effect_config) ==
    IF effect_config.has_type THEN effect_config.type ELSE "kenBurns"

\* effect_config.get('type', 'static') (scene_builder.py:87, motion.py:137)
EffectType(effect_config) ==
    IF effect_config.has_type THEN effect_config.type ELSE "static"

\* effects/motion.py lines 124-160: the functions each effect attaches
\* (create_smooth_ken_burns line 62, create_parallax_effect lines 86-87,
\* create_zoom_pulse line 109)
apply_motion_effect(clip, effect_config) ==
    LET effect_type == EffectType(effect_config) IN
    IF effect_type = "static" THEN clip
    ELSE IF effect_type = "kenBurns"
    THEN [clip EXCEPT !.resize = "get_scale", !.position = "get_position"]
    ELSE IF effect_type = "parallax"
    THEN [clip EXCEPT !.resize = "constant", !.position = "get_position"]
    ELSE IF effect_type = "pulse"
    THEN [clip EXCEPT !.resize = "get_scale"]
    ELSE clip

\* scene_builder.py lines 59-93 (mixed_scene_builder.py lines 69-91):
\* _create_background; the image cropped to fill the frame is the source
CreateBackground ==
    /\ scene_pc = "timed"
    /\ LET bg_clip == [kind |-> "background", duration |-> scene_duration,
                       resize |-> "none", position |-> "none"]
           effect_config == IF scene_data.has_background_effect
                            THEN scene_data.background_effect
                            ELSE [has_type |-> TRUE, type |-> "static"]
       IN background_clip' =
            IF EffectType(effect_config) # "static"
            THEN apply_motion_effect(bg_clip, effect_config)
            ELSE bg_clip
    /\ scene_pc' = "background"
    /\ UNCHANGED <<scene_data, scene_duration, overlay_clips, scene_clip,
                   textVars, timelineVars, animVars, cliVars, otherVars>>

\* _create_text_overlay (lines 124-142) and _create_image_overlay (lines
\* 144-188): the clip, or None for an image whose file does not exist
create_overlay(overlay_config) ==
    IF overlay_config.type = "text" THEN [kind |-> "text"]
    ELSE IF ~overlay_config.path_exists THEN None
    ELSE [kind |-> "image"]

\* scene_builder.py lines 95-122 (mixed_scene_builder.py lines 123-139):
\* _create_overlays appends what the two functions return
CreateOverlays ==
    /\ scene_pc = "background"
    /\ overlay_clips' = [j \in 1..Len(get_overlays(scene_data)) |->
                            create_overlay(get_overlays(scene_data)[j])]
    /\ scene_pc' = "layered"
    /\ UNCHANGED <<scene_data, scene_duration, background_clip, scene_clip,
                   textVars, timelineVars, animVars, cliVars, otherVars>>

\* line 51: all_clips = [background_clip] + overlay_clips
all_clips == <<background_clip>> \o overlay_clips

\* lines 52-57: CompositeVideoClip(all_clips), which reads the end of every
\* clip and so raises on None; then set_duration(duration)
SceneComposite ==
    /\ scene_pc = "layered"
    /\ IF \E k \in 1..Len(all_clips) : all_clips[k].kind = "None"
       THEN scene_pc' = "composite_raised" /\ UNCHANGED scene_clip
       ELSE /\ scene_clip' = [duration |-> scene_duration, layers |-> Len(all_clips)]
            /\ scene_pc' = "built"
    /\ UNCHANGED <<scene_data, scene_duration, background_clip, overlay_clips,
                   textVars, timelineVars, animVars, cliVars, otherVars>>

NextScene == SceneDuration \/ CreateBackground \/ CreateOverlays \/ SceneComposite
SpecScene == InitScene /\ [][NextScene]_vars
SpecLayers == InitLayers /\ [][NextScene]_vars

\* ------------------------------------------ VideoComposer._apply_transitions
\* line 114: min(trans_config.get('duration', 1.0), clip.duration * 0.5)
default_trans_duration == Sec

\* video_composer.py lines 19-20 and scene_builder.py line 50: every scene clip is
\* a composite of the composer's frame size
frame_width == 1184
frame_height == 864
clip_size == <<frame_width, frame_height>>

TransDurationUnclamped(trans_config, clip_duration) ==
    IF trans_config.has_duration THEN trans_config.duration ELSE default_trans_duration

TransDuration(trans_config, clip_duration) ==
    Min(IF trans_config.has_duration THEN trans_config.duration
        ELSE default_trans_duration,
        clip_duration \div 2)

\* a clip placed on the timeline: set_start, crossfadein/crossfadeout, set_position
PlacedClip(start, duration) ==
    [start |-> start, duration |-> duration,
     crossfadein |-> 0, crossfadeout |-> 0, position |-> "fixed",
     direction |-> "none"]

ClipEnd(c) == c.start + c.duration

RECURSIVE MaxEnd(_)
MaxEnd(clips) ==
    IF clips = <<>> THEN 0
    ELSE Max(ClipEnd(Head(clips)), MaxEnd(Tail(clips)))

RECURSIVE SumDurations(_)
SumDurations(clips) ==
    IF clips = <<>> THEN 0 ELSE Head(clips).duration + SumDurations(Tail(clips))

InitTimeline ==
    /\ composer \in {"video", "mixed"}
    /\ scene_clips \in SeqsUpTo(SceneClipInputs, MaxScenes)
    /\ tl_pc = "call" /\ i = 0 /\ current_time = 0 /\ trans_duration = 0 /\ w = 0
    /\ timeline_clips = <<>> /\ final_clip = NoFinalClip
    /\ IdleText /\ IdleScene /\ IdleAnimator /\ IdleCli /\ IdleOthers

\* lines 91-92 (and mixed_composer.py 87-88): no scenes, ValueError
NoScenesToCompose ==
    /\ tl_pc = "call" /\ scene_clips = <<>>
    /\ tl_pc' = "raised"
    /\ UNCHANGED <<composer, scene_clips, i, current_time, trans_duration, w,
                   timeline_clips, final_clip, textVars, sceneVars, animVars, cliVars, otherVars>>

\* lines 94-95 (and mixed_composer.py 90-91): a single scene is returned as is
SingleScene ==
    /\ tl_pc = "call" /\ Len(scene_clips) = 1
    /\ final_clip' = [start |-> 0, duration |-> scene_clips[1].duration]
    /\ tl_pc' = "done"
    /\ UNCHANGED <<composer, scene_clips, i, current_time, trans_duration, w,
                   timeline_clips, textVars, sceneVars, animVars, cliVars, otherVars>>

\* lines 99-101: timeline_clips = [], current_time = 0
StartTimeline ==
    /\ tl_pc = "call" /\ composer = "video" /\ Len(scene_clips) > 1
    /\ timeline_clips' = <<>> /\ current_time' = 0 /\ i' = 1
    /\ tl_pc' = "loop"
    /\ UNCHANGED <<composer, scene_clips, trans_duration, w, final_clip,
                   textVars, sceneVars, animVars, cliVars, otherVars>>

\* line 134: trans_config.get('from_edge', 'left')
from_edge(trans_config) ==
    IF "from_edge" \in DOMAIN trans_config THEN trans_config.from_edge ELSE "left"

\* lines 139-145: the lambda chosen for the direction; any direction other
\* than 'left' and 'right' gets lambda t: (0, 0)
SlideDirection(trans_config) ==
    IF from_edge(trans_config) \in {"left", "right"}
    THEN from_edge(trans_config) ELSE "still"

\* lines 103-154: one iteration of the loop over scene_clips
TransitionStep ==
    /\ tl_pc = "loop" /\ i <= Len(scene_clips)
    /\ LET clip == scene_clips[i]
           config == scene_clips[i]
           placed == PlacedClip(current_time, clip.duration)
       IN
       IF i > 1 /\ config.has_transition
       THEN LET trans_type == config.transition.type
                td == TransDuration(config.transition, clip.duration)
            IN
            /\ trans_duration' = td
            /\ IF trans_type \in {"fade", "crossfade"}
               THEN /\ timeline_clips' =
                        [timeline_clips EXCEPT ![Len(timeline_clips)].crossfadeout = td]
                        \o <<[placed EXCEPT !.crossfadein = td,
                                            !.start = current_time - td]>>
                    /\ current_time' = current_time - td + clip.duration
                    /\ UNCHANGED w
               ELSE IF trans_type \in {"slide", "slideIn"}
               THEN /\ w' = clip_size[1]
                    /\ timeline_clips' = timeline_clips
                        \o <<[placed EXCEPT !.position = "slide_func",
                                            !.direction = SlideDirection(config.transition),
                                            !.start = current_time - td]>>
                    /\ current_time' = current_time - td + clip.duration
               ELSE /\ timeline_clips' = timeline_clips \o <<placed>>
                    /\ current_time' = current_time + clip.duration
                    /\ UNCHANGED w
       ELSE /\ timeline_clips' = timeline_clips \o <<placed>>
            /\ current_time' = current_time + clip.duration
            /\ UNCHANGED <<trans_duration, w>>
    /\ i' = i + 1
    /\ UNCHANGED <<composer, scene_clips, tl_pc, final_clip, textVars, sceneVars,
                   animVars, cliVars, otherVars>>

\* lines 141, 143, 145: the body of a slide lambda for given values of the
\* names it reads. x is x_num / x_den; t / 0 raises ZeroDivisionError.
slide_lambda(direction, width, duration, t) ==
    IF direction = "still" THEN [raised |-> FALSE, x_num |-> 0, x_den |-> 1, y |-> 0]
    ELSE IF duration = 0
    THEN [raised |-> TRUE, x_num |-> 0, x_den |-> 1, y |-> 0]
    ELSE IF direction = "left"
    THEN [raised |-> FALSE, x_num |-> Max(0, width * (duration - t)),
          x_den |-> duration, y |-> 0]
    ELSE [raised |-> FALSE, x_num |-> Min(0, 0 - width * (duration - t)),
          x_den |-> duration, y |-> 0]

\* a call of slide_func(t): the lambda reads the locals w and trans_duration
\* of _apply_transitions when it is called, so it sees the values the
\* variables hold at that moment
slide_func(direction, t) == slide_lambda(direction, w, trans_duration, t)

\* lines 163-171: CompositeVideoClip(timeline_clips); its duration is the
\* latest end among its clips
CompositeTimeline ==
    /\ tl_pc = "loop" /\ i > Len(scene_clips)
    /\ final_clip' = [start |-> 0, duration |-> MaxEnd(timeline_clips)]
    /\ tl_pc' = "done"
    /\ UNCHANGED <<composer, scene_clips, i, current_time, trans_duration, w,
                   timeline_clips, textVars, sceneVars, animVars, cliVars, otherVars>>

\* ------------------------------------------ MixedComposer._concatenate_scenes
\* concatenate_videoclips(clips, method="compose"): each clip starts where
\* the previous one ends
RECURSIVE Concatenated(_, _)
Concatenated(clips, t) ==
    IF clips = <<>> THEN <<>>
    ELSE <<PlacedClip(t, Head(clips).duration)>>
         \o Concatenated(Tail(clips), t + Head(clips).duration)

\* mixed_composer.py lines 95-101
ConcatenateScenes ==
    /\ tl_pc = "call" /\ composer = "mixed" /\ Len(scene_clips) > 1
    /\ timeline_clips' = Concatenated(scene_clips, 0)
    /\ final_clip' = [start |-> 0, duration |-> SumDurations(scene_clips)]
    /\ tl_pc' = "done"
    /\ UNCHANGED <<composer, scene_clips, i, current_time, trans_duration, w,
                   textVars, sceneVars, animVars, cliVars, otherVars>>

NextTimeline ==
    \/ NoScenesToCompose
    \/ SingleScene
    \/ StartTimeline
    \/ TransitionStep
    \/ CompositeTimeline
    \/ ConcatenateScenes
SpecTimeline == InitTimeline /\ [][NextTimeline]_vars

\* scene lists with slide transitions: 'from_edge' absent, or one of the
\* edges; a crossfade is kept so that a later scene of another type can follow
SlideEdges == {"right", "top"}
SlideDurations == {Sec, 2 * Sec}
SlideClipDurations == {2 * Sec, 4 * Sec}
SlideTransitions ==
    {[type |-> "slide", has_duration |-> TRUE, duration |-> d] :
        d \in SlideDurations}
    \cup {[type |-> "slide", has_duration |-> TRUE, duration |-> d, from_edge |-> e] :
        d \in SlideDurations, e \in SlideEdges}
    \cup {[type |-> "crossfade", has_duration |-> FALSE, duration |-> 0]}
SlideClipInputs ==
    {[duration |-> d, has_transition |-> FALSE, transition |-> NoTransition] :
        d \in SlideClipDurations}
    \cup {[duration |-> d, has_transition |-> TRUE, transition |-> tc] :
        d \in SlideClipDurations, tc \in SlideTransitions}

InitSlide ==
    /\ composer \in {"video", "mixed"}
    /\ scene_clips \in SeqsUpTo(SlideClipInputs, MaxScenes)
    /\ tl_pc = "call" /\ i = 0 /\ current_time = 0 /\ trans_duration = 0 /\ w = 0
    /\ timeline_clips = <<>> /\ final_clip = NoFinalClip
    /\ IdleText /\ IdleScene /\ IdleAnimator /\ IdleCli /\ IdleOthers
SpecSlide == InitSlide /\ [][NextTimeline]_vars

\* ------------------------------------------ TextAnimator.generate_animation_frames
\* the keywords (of those the dispatch tests) contained in animation.lower()
Keywords(animation) ==
    CASE animation = "fade_in"      -> {"fade"}
      [] animation = "slide_left"   -> {"slide", "left"}
      [] animation = "slide_right"  -> {"slide", "right"}
      [] animation = "slide_bottom" -> {"slide", "bottom"}
      [] animation = "slide_top"    -> {"slide", "top"}
      [] animation = "scale_in"     -> {"scale"}
      [] animation = "pop"          -> {"pop"}
      [] animation = "bounce"       -> {"bounce"}
      [] animation = "grow"         -> {"grow"}
      [] OTHER                      -> {}

\* lines 431-453: the if/elif chain choosing the frame generator
Dispatch(animation) ==
    LET kw == Keywords(animation) IN
    IF "fade" \in kw THEN "fade"
    ELSE IF "slide" \in kw /\ "left" \in kw THEN "slide_left"
    ELSE IF "slide" \in kw /\ "right" \in kw THEN "slide_right"
    ELSE IF "slide" \in kw /\ "bottom" \in kw THEN "slide_bottom"
    ELSE IF "slide" \in kw /\ "top" \in kw THEN "slide_top"
    ELSE IF "scale" \in kw \/ "zoom" \in kw \/ "grow" \in kw THEN "scale"
    ELSE IF "pop" \in kw \/ "bounce" \in kw THEN "pop"
    ELSE "fade"

\* the animation length of each generator, in tenths of a second
\* (lines 463, 493, 544, 584)
AnimTenths(gen) ==
    CASE gen = "scale" -> 7
      [] gen = "pop"   -> 5
      [] OTHER         -> 8

\* int(x) of a non-negative quotient
IntDiv(num, den) == num \div den

\* line 427: total_frames = int(duration * self.fps)
TotalFrames(duration, fps) == IntDiv(duration * fps, Sec)
\* anim_frames = int(0.8 * self.fps), start_frame = int(start_time * self.fps)
AnimFrames(gen, fps) == IntDiv(AnimTenths(gen) * fps, 10)
StartFrame(start_time, fps) == IntDiv(start_time * fps, Sec)

\* the body of the frame loop of _animate_fade/_slide/_scale/_pop for index idx:
\* a canvas of the animator's size, blank, or with the animated image for the
\* progress reached, or with the unmodified image centred on (pos_x, pos_y)
Frame(gen, idx) ==
    LET anim_frames == AnimFrames(gen, animator.fps)
        start_frame == StartFrame(anim_args.start_time, animator.fps)
        canvas == [size |-> <<animator.width, animator.height>>,
                   phase |-> "blank", branch |-> "none",
                   progress |-> <<0, 1>>, x |-> 0, y |-> 0]
    IN
    IF idx < start_frame THEN canvas
    ELSE IF idx < start_frame + anim_frames
    THEN [canvas EXCEPT !.phase = "animating", !.branch = gen,
                        !.progress = <<idx - start_frame, anim_frames>>]
    ELSE [canvas EXCEPT !.phase = "steady",
                        !.x = anim_args.pos_x - (anim_args.img_w \div 2),
                        !.y = anim_args.pos_y - (anim_args.img_h \div 2)]

\* scene_builder.py line 135: TextAnimator(self.width, self.height, fps=30);
\* mixed_scene_builder.py line 19: TextAnimator(width, height), whose fps
\* defaults to 30 (text_animator_v2.py line 17)
TextAnimator(width, height) ==
    [width |-> width, height |-> height, fps |-> animator_fps]

InitAnimator ==
    /\ composer_fps \in ConfigFps /\ builder \in Builders
    /\ \E size \in FrameSizes : animator = TextAnimator(size[1], size[2])
    /\ \E img \in TextImageSizes, an \in AnimationNames,
          d \in AnimDurations, st \in StartTimes :
         anim_args = [img_w |-> img[1], img_h |-> img[2], animation |-> an,
                      duration |-> d, start_time |-> st,
                      pos_x |-> animator.width \div 2,
                      pos_y |-> animator.height \div 2]
    /\ anim_pc = "call" /\ generator = "none" /\ total_frames = 0 /\ frames = <<>>
    /\ IdleText /\ IdleScene /\ IdleTimeline /\ IdleCli /\ IdleOthers

\* lines 427-453: count the frames and choose the generator
DispatchAnimation ==
    /\ anim_pc = "call"
    /\ total_frames' = TotalFrames(anim_args.duration, animator.fps)
    /\ generator' = Dispatch(anim_args.animation)
    /\ frames' = <<>>
    /\ anim_pc' = "loop"
    /\ UNCHANGED <<composer_fps, builder, animator, anim_args, textVars, sceneVars,
                   timelineVars, cliVars, otherVars>>

\* one iteration of `for i in range(total_frames)`: frames.append(canvas)
GenerateFrame ==
    /\ anim_pc = "loop" /\ Len(frames) < total_frames
    /\ frames' = Append(frames, Frame(generator, Len(frames)))
    /\ UNCHANGED <<composer_fps, builder, animator, anim_args, anim_pc, generator,
                   total_frames,
                   textVars, sceneVars, timelineVars, cliVars, otherVars>>

\* the loop is exhausted: return frames
ReturnFrames ==
    /\ anim_pc = "loop" /\ Len(frames) = total_frames
    /\ anim_pc' = "done"
    /\ UNCHANGED <<composer_fps, builder, animator, anim_args, generator,
                   total_frames, frames,
                   textVars, sceneVars, timelineVars, cliVars, otherVars>>

NextAnimator == DispatchAnimation \/ GenerateFrame \/ ReturnFrames
SpecAnimator == InitAnimator /\ [][NextAnimator]_vars

\* ------------------------------------------ ConfigLoader.load
\* _validate_overlays (lines 209-258): the errors appended for one overlay
OverlayErrors(ov) ==
    IF ~ov.has_type THEN <<"overlay_type_missing">>
    ELSE IF ov.type = "text"
    THEN IF ~ov.has_text /\ ~ov.has_lines THEN <<"text_missing">> ELSE <<>>
    ELSE IF ov.type = "image"
    THEN IF ~ov.has_path THEN <<"path_missing">> ELSE <<>>
    ELSE <<>>

\* the warnings appended for one overlay (lines 245-250 and 257-258)
OverlayWarnings(ov) ==
    IF ov.has_type /\ ov.type = "image" /\ ov.has_path /\ ~ov.path_exists
    THEN <<"overlay_image_not_found">>
    ELSE IF ov.has_type /\ ov.type = "text" /\ ov.has_animation
            /\ ov.animation \notin VALID_ANIMATIONS
    THEN <<"unknown_animation">>
    ELSE <<>>

RECURSIVE OverlaysErrors(_)
OverlaysErrors(ovs) ==
    IF ovs = <<>> THEN <<>>
    ELSE OverlayErrors(Head(ovs)) \o OverlaysErrors(Tail(ovs))

RECURSIVE OverlaysWarnings(_)
OverlaysWarnings(ovs) ==
    IF ovs = <<>> THEN <<>>
    ELSE OverlayWarnings(Head(ovs)) \o OverlaysWarnings(Tail(ovs))

\* _validate_scenes, loop body (lines 174-207)
SceneErrors(sc) ==
    (IF ~sc.has_image_path THEN <<"image_path_missing">>
     ELSE IF ~sc.image_exists THEN <<"image_not_found">> ELSE <<>>)
    \o (IF sc.has_overlays THEN OverlaysErrors(sc.overlays) ELSE <<>>)

RECURSIVE ScenesErrors(_)
ScenesErrors(scs) ==
    IF scs = <<>> THEN <<>> ELSE SceneErrors(Head(scs)) \o ScenesErrors(Tail(scs))

\* a 'background_effect' or 'transition' whose 'type' is not a valid kind
UnknownKind(has_key, kind, valid) ==
    has_key /\ kind.has_type /\ kind.type \notin valid

\* _validate_scenes, loop body: the warnings appended (lines 184-207)
SceneWarnings(sc) ==
    (IF UnknownKind(sc.has_background_effect, sc.background_effect, VALID_MOTIONS)
     THEN <<"unknown_motion">> ELSE <<>>)
    \o (IF UnknownKind(sc.has_transition, sc.transition, VALID_TRANSITIONS)
        THEN <<"unknown_transition">> ELSE <<>>)
    \o (IF sc.has_overlays THEN OverlaysWarnings(sc.overlays) ELSE <<>>)

RECURSIVE ScenesWarnings(_)
ScenesWarnings(scs) ==
    IF scs = <<>> THEN <<>>
    ELSE SceneWarnings(Head(scs)) \o ScenesWarnings(Tail(scs))

\* a validator that accepts a text overlay without 'text' and 'lines'
ValidationErrorsNoText(cfg) ==
    IF ~cfg.has_scenes THEN <<"scenes_missing">>
    ELSE IF cfg.scenes = <<>> THEN <<"no_scenes">>
    ELSE SelectSeq(ScenesErrors(cfg.scenes), LAMBDA e : e # "text_missing")

\* _validate (lines 131-164) with _validate_scenes (166-207)
ValidationErrors(cfg) ==
    IF ~cfg.has_scenes THEN <<"scenes_missing">>
    ELSE IF cfg.scenes = <<>> THEN <<"no_scenes">>
    ELSE ScenesErrors(cfg.scenes)

\* a validator that says nothing about an 'audio_path' naming no file
ValidationWarningsNoAudio(cfg) ==
    IF cfg.has_scenes THEN ScenesWarnings(cfg.scenes) ELSE <<>>

\* the warnings of _validate: those of the scenes, then the audio file
\* (lines 154-156)
ValidationWarnings(cfg) ==
    (IF cfg.has_scenes THEN ScenesWarnings(cfg.scenes) ELSE <<>>)
    \o (IF cfg.has_audio_path /\ ~cfg.audio_exists
        THEN <<"audio_not_found">> ELSE <<>>)

\* a validator that warns about an unknown animation and leaves it in place
ValidatedOverlayKeepsUnknown(ov) == ov

\* lines 245-251: overlay['animation'] = 'fade_in' for an unknown animation
ValidatedOverlay(ov) ==
    IF ov.has_type /\ ov.type = "text" /\ ov.has_animation
       /\ ov.animation \notin VALID_ANIMATIONS
    THEN [ov EXCEPT !.animation = "fade_in"]
    ELSE ov

\* _preprocess_overlay (lines 278-304): the defaults of a text overlay
PreprocessedOverlay(ov) ==
    IF ov.type = "text"
    THEN [ov EXCEPT !.has_animation = TRUE,
                    !.animation = IF ov.has_animation THEN @ ELSE "fade_in",
                    !.has_start_time = TRUE,
                    !.start_time = IF ov.has_start_time THEN @ ELSE 0]
    ELSE ov

\* lines 186-192 and 197-203: the 'type' replaced by the default
ValidatedKind(has_key, kind, valid, default) ==
    IF UnknownKind(has_key, kind, valid) THEN [kind EXCEPT !.type = default]
    ELSE kind

\* a scene after _validate_scenes and _preprocess_scenes (lines 270-276)
ProcessedScene(sc) ==
    [sc EXCEPT
        !.has_background_effect = TRUE,
        !.background_effect =
            IF ~sc.has_background_effect THEN [has_type |-> TRUE, type |-> "static"]
            ELSE ValidatedKind(TRUE, @, VALID_MOTIONS, "static"),
        !.transition = ValidatedKind(sc.has_transition, @, VALID_TRANSITIONS, "fade"),
        !.overlays = [j \in 1..Len(sc.overlays) |->
                        PreprocessedOverlay(ValidatedOverlay(sc.overlays[j]))]]

\* self.config as load returns it
ProcessedConfig(cfg) ==
    [cfg EXCEPT !.scenes = [k \in 1..Len(cfg.scenes) |-> ProcessedScene(cfg.scenes[k])]]

\* _preprocess_scenes / _preprocess_overlay (lines 260-304): overlay['type']
\* raises KeyError for an overlay without 'type'
PreprocessRaises(cfg) ==
    \E k \in 1..Len(cfg.scenes) :
        /\ cfg.scenes[k].has_overlays
        /\ \E j \in 1..Len(cfg.scenes[k].overlays) : ~cfg.scenes[k].overlays[j].has_type

InitCli ==
    /\ raw_config \in RawConfigs
    /\ errors = <<>> /\ warnings = <<>>
    /\ loaded_config = NoConfig
    /\ cli_pc = "load" /\ load_error = "none" /\ built = 0 /\ exported = FALSE
    /\ IdleText /\ IdleScene /\ IdleTimeline /\ IdleAnimator /\ IdleOthers

\* the same program started on a document that sets the optional keys
InitLoader ==
    /\ raw_config \in LoaderConfigs /\ loaded_config = NoConfig
    /\ errors = <<>> /\ warnings = <<>>
    /\ cli_pc = "load" /\ load_error = "none" /\ built = 0 /\ exported = FALSE
    /\ IdleText /\ IdleScene /\ IdleTimeline /\ IdleAnimator /\ IdleOthers

\* main.py line 102, config_loader.py lines 62-115: merge, validate,
\* preprocess, then raise ValueError if any error was collected
load(cfg) ==
    /\ errors' = errors \o ValidationErrors(cfg)
    /\ warnings' = warnings \o ValidationWarnings(cfg)
    /\ IF PreprocessRaises(cfg)
       THEN load_error' = "KeyError" /\ cli_pc' = "exit_1" /\ UNCHANGED loaded_config
       ELSE IF errors' # <<>>
       THEN load_error' = "ValueError" /\ cli_pc' = "exit_1" /\ UNCHANGED loaded_config
       ELSE /\ load_error' = "none" /\ cli_pc' = "compose"
            /\ loaded_config' = ProcessedConfig(cfg)

Load ==
    /\ cli_pc = "load"
    /\ load(raw_config)
    /\ UNCHANGED <<raw_config, built, exported, textVars, sceneVars, timelineVars,
                   animVars, otherVars>>

\* ------------------------------------------ VideoComposer.compose
\* timing.py lines 41-52 on a scene of the configuration: without a positive
\* 'duration' the loop reads overlay['text'] of every text overlay, which
\* raises KeyError when the key is absent
SceneDurationRaises(sc) ==
    /\ ~(sc.has_duration /\ sc.duration > 0)
    /\ sc.has_overlays
    /\ \E j \in 1..Len(sc.overlays) :
          sc.overlays[j].type = "text" /\ ~sc.overlays[j].has_text

\* build_scene raises when calculate_scene_duration does (line 41), for a
\* missing background image (lines 72-73) and for an image overlay whose file
\* is missing (scene_builder.py:159 returns None, which CompositeVideoClip
\* rejects)
BuildRaises(sc) ==
    \/ SceneDurationRaises(sc)
    \/ ~sc.has_image_path \/ ~sc.image_exists
    \/ /\ sc.has_overlays
       /\ \E j \in 1..Len(sc.overlays) :
            sc.overlays[j].type = "image" /\ ~sc.overlays[j].path_exists

\* video_composer.py lines 73-83: one iteration of _build_all_scenes
BuildScene ==
    /\ cli_pc = "compose" /\ built < Len(raw_config.scenes)
    /\ IF BuildRaises(raw_config.scenes[built + 1])
       THEN cli_pc' = "exit_1" /\ UNCHANGED built
       ELSE built' = built + 1 /\ UNCHANGED cli_pc
    /\ UNCHANGED <<raw_config, loaded_config, errors, warnings, load_error, exported,
                   textVars, sceneVars, timelineVars, animVars, otherVars>>

\* lines 40-47: _apply_transitions, _apply_final_effects
ComposeTimeline ==
    /\ cli_pc = "compose" /\ built = Len(raw_config.scenes)
    /\ cli_pc' = "export"
    /\ UNCHANGED <<raw_config, loaded_config, errors, warnings, load_error, built, exported,
                   textVars, sceneVars, timelineVars, animVars, otherVars>>

\* lines 50-59: _export_video, _cleanup; main.py 119-124
ExportVideo ==
    /\ cli_pc = "export"
    /\ exported' = TRUE
    /\ cli_pc' = "success"
    /\ UNCHANGED <<raw_config, loaded_config, errors, warnings, load_error, built,
                   textVars, sceneVars, timelineVars, animVars, otherVars>>

NextCli == Load \/ BuildScene \/ ComposeTimeline \/ ExportVideo
SpecCli == InitCli /\ [][NextCli]_vars
SpecLoader == InitLoader /\ [][NextCli]_vars

\* ------------------------------------------ ConfigLoader.load, called again
\* one ConfigLoader (constructed once, lines 57-60) whose load is called with
\* one file after another; the documents have at most one scene, without
\* overlays
MaxLoads == 3
ReloadConfigs ==
    {cfg \in RawConfigs :
        /\ Len(cfg.scenes) <= 1
        /\ \A k \in 1..Len(cfg.scenes) : cfg.scenes[k].overlays = <<>>}

InitReload ==
    /\ raw_config \in ReloadConfigs /\ loaded_config = NoConfig
    /\ errors = <<>> /\ warnings = <<>>
    /\ cli_pc = "load" /\ load_error = "none" /\ built = 0 /\ exported = FALSE
    /\ IdleText /\ IdleScene /\ IdleTimeline /\ IdleAnimator /\ IdleOthers

\* lines 62-115 on the same instance: self.errors and self.warnings are
\* assigned in __init__ only
LoadAgain ==
    /\ cli_pc \in {"exit_1", "compose"} /\ built = 0
    /\ reloads + 1 < MaxLoads
    /\ \E cfg \in ReloadConfigs : raw_config' = cfg /\ load(cfg)
    /\ reloads' = reloads + 1
    /\ UNCHANGED <<built, exported, textVars, sceneVars, timelineVars, animVars,
                   composeVars, positionVars, videoVars, parallaxVars, waitVars>>

NextReload == Load \/ LoadAgain
SpecReload == InitReload /\ [][NextReload]_vars

\* ------------------------------------------ VideoComposer.compose,
\* ------------------------------------------ MixedComposer.compose
\* the configurations: per scene whether build_scene succeeds and the
\* duration of its clip (these scenes declare no transition); 'audio_path'
\* absent, of a missing file, or of a track of some length; the resolved
\* 'intro_fade' and 'outro_fade' (config.get defaults 0.5 and 1.0, or 0)
ComposeScenes ==
    {[builds |-> TRUE, duration |-> d] : d \in {2 * Sec, 3 * Sec}}
    \cup {[builds |-> FALSE, duration |-> 0]}
AudioDurations == {2 * Sec, 5 * Sec, 20 * Sec}
ComposeConfigs ==
    {[scenes |-> scs, has_audio_path |-> ha, audio_exists |-> ha /\ ae,
      audio_duration |-> IF ha /\ ae THEN ad ELSE 0,
      intro_fade |-> fi, outro_fade |-> fo] :
        scs \in SeqsUpTo(ComposeScenes, MaxScenes),
        ha \in BOOLEAN, ae \in BOOLEAN, ad \in AudioDurations,
        fi \in {0, Sec \div 2}, fo \in {0, Sec}}

audio_fadeout == (3 * Sec) \div 2

SceneClipId(k) == [clip |-> "scene", index |-> k]
AudioClipId == [clip |-> "audio", index |-> 0]
FinalClipId == [clip |-> "final_video", index |-> 0]

\* a compose that applies the final fades before it attaches the audio
StageAfterFadesFirst(stage) ==
    CASE stage = "build" -> "transitions"
      [] stage = "transitions" -> "effects"
      [] stage = "effects" -> "audio"
      [] stage = "audio" -> "export"
      [] stage = "export" -> "cleanup"
      [] stage = "cleanup" -> "returned"

\* video_composer.py lines 36-59, mixed_composer.py lines 28-62: the
\* statement that follows each stage of compose
StageAfter(stage) ==
    CASE stage = "build" -> "transitions"
      [] stage = "transitions" -> "audio"
      [] stage = "audio" -> "effects"
      [] stage = "effects" -> "export"
      [] stage = "export" -> "cleanup"
      [] stage = "cleanup" -> "returned"

InitCompose ==
    /\ compose_class \in {"VideoComposer", "MixedComposer"}
    /\ compose_config \in ComposeConfigs
    /\ compose_pc = "build" /\ compose_clips = <<>> /\ final_video = NoFinalVideo
    /\ opened = {} /\ closed = {} /\ output_file = "absent" /\ stages = <<>>
    /\ compose_error = "none"
    /\ IdleText /\ IdleScene /\ IdleTimeline /\ IdleAnimator /\ IdleCli
    /\ IdlePosition /\ IdleVideo /\ IdleExtra

\* _build_all_scenes, one iteration (video_composer.py lines 73-83,
\* mixed_composer.py lines 71-81): the clip is appended, or the exception
\* of build_scene is raised again
ComposeBuildScene ==
    /\ compose_pc = "build" /\ Len(compose_clips) < Len(compose_config.scenes)
    /\ LET scene_config == compose_config.scenes[Len(compose_clips) + 1] IN
       IF scene_config.builds
       THEN /\ compose_clips' = Append(compose_clips, [duration |-> scene_config.duration])
            /\ opened' = opened \cup {SceneClipId(Len(compose_clips) + 1)}
            /\ UNCHANGED <<compose_pc, compose_error>>
       ELSE /\ compose_pc' = "raised" /\ compose_error' = "build"
            /\ UNCHANGED <<compose_clips, opened>>
    /\ stages' = Append(stages, "build")
    /\ UNCHANGED <<compose_class, compose_config, final_video, closed, output_file,
                   textVars, sceneVars, timelineVars, animVars, cliVars,
                   positionVars, videoVars,
                   extraVars>>

\* _build_all_scenes returns scene_clips (line 85 / line 83)
ComposeScenesBuilt ==
    /\ compose_pc = "build" /\ Len(compose_clips) = Len(compose_config.scenes)
    /\ compose_pc' = StageAfter("build")
    /\ UNCHANGED <<compose_class, compose_config, compose_clips, final_video, opened,
                   closed, output_file, stages, compose_error,
                   textVars, sceneVars, timelineVars, animVars, cliVars,
                   positionVars, videoVars,
                   extraVars>>

\* _apply_transitions (video_composer.py lines 87-171) and
\* _concatenate_scenes (mixed_composer.py lines 85-101) on scenes without
\* transitions: ValueError for no scene, the clip itself for one scene, and
\* otherwise the scenes placed end to end in one composite clip
ComposeTransitions ==
    /\ compose_pc = "transitions"
    /\ stages' = Append(stages, "transitions")
    /\ IF compose_clips = <<>>
       THEN /\ compose_pc' = "raised" /\ compose_error' = "transitions"
            /\ UNCHANGED <<final_video, opened>>
       ELSE /\ final_video' = [NoFinalVideo EXCEPT
                                  !.duration = MaxEnd(Concatenated(compose_clips, 0))]
            /\ opened' = IF Len(compose_clips) = 1 THEN opened
                         ELSE opened \cup {FinalClipId}
            /\ compose_pc' = StageAfter("transitions")
            /\ UNCHANGED compose_error
    /\ UNCHANGED <<compose_class, compose_config, compose_clips, closed, output_file,
                   textVars, sceneVars, timelineVars, animVars, cliVars,
                   positionVars, videoVars,
                   extraVars>>

\* _add_audio after the file check (video_composer.py lines 193-213,
\* mixed_composer.py lines 113-122): the track set on the video
add_audio(class, video_dur, audio_dur) ==
    IF audio_dur > video_dur
    THEN [duration |-> video_dur, fadeout |-> audio_fadeout, loops |-> 1]
    ELSE IF audio_dur < video_dur
    THEN LET loops_needed == (video_dur \div audio_dur) + 1 IN
         [duration |-> Min(loops_needed * audio_dur, video_dur),
          fadeout |-> IF class = "VideoComposer" THEN audio_fadeout ELSE 0,
          loops |-> loops_needed]
    ELSE [duration |-> audio_dur, fadeout |-> 0, loops |-> 1]

\* lines 43-44 / 35-36 with _add_audio: skipped without 'audio_path'; a
\* missing file leaves the video silent; otherwise the track is opened,
\* fitted and set
ComposeAudio ==
    /\ compose_pc = "audio"
    /\ IF ~compose_config.has_audio_path
       THEN UNCHANGED <<final_video, opened, stages>>
       ELSE /\ stages' = Append(stages, "audio")
            /\ IF ~compose_config.audio_exists
               THEN UNCHANGED <<final_video, opened>>
               ELSE /\ final_video' =
                        [final_video EXCEPT
                            !.has_audio = TRUE,
                            !.audio = add_audio(compose_class, final_video.duration,
                                                compose_config.audio_duration)]
                    /\ opened' = opened \cup {AudioClipId}
    /\ compose_pc' = StageAfter("audio")
    /\ UNCHANGED <<compose_class, compose_config, compose_clips, closed, output_file,
                   compose_error,
                   textVars, sceneVars, timelineVars, animVars, cliVars,
                   positionVars, videoVars,
                   extraVars>>

\* _apply_final_effects (video_composer.py lines 222-247,
\* mixed_composer.py lines 129-141)
ComposeFinalEffects ==
    /\ compose_pc = "effects"
    /\ stages' = Append(stages, "effects")
    /\ final_video' = [final_video EXCEPT
                          !.fadein = IF compose_config.intro_fade > 0
                                     THEN compose_config.intro_fade ELSE @,
                          !.fadeout = IF compose_config.outro_fade > 0
                                      THEN compose_config.outro_fade ELSE @]
    /\ compose_pc' = StageAfter("effects")
    /\ UNCHANGED <<compose_class, compose_config, compose_clips, opened, closed,
                   output_file, compose_error,
                   textVars, sceneVars, timelineVars, animVars, cliVars,
                   positionVars, videoVars,
                   extraVars>>

\* _export_video (video_composer.py lines 249-283, mixed_composer.py lines
\* 143-169): write_videofile writes the whole file, or raises and leaves
\* whatever the encoder had written; compose has no handler around it
ComposeExport ==
    /\ compose_pc = "export"
    /\ stages' = Append(stages, "export")
    /\ \/ /\ output_file' = "complete"
          /\ compose_pc' = StageAfter("export")
          /\ UNCHANGED compose_error
       \/ /\ output_file' \in {"absent", "partial"}
          /\ compose_pc' = "raised" /\ compose_error' = "export"
    /\ UNCHANGED <<compose_class, compose_config, compose_clips, final_video, opened,
                   closed,
                   textVars, sceneVars, timelineVars, animVars, cliVars,
                   positionVars, videoVars,
                   extraVars>>

\* the clip final_video names: the only scene clip, or the composite
FinalVideoId == IF Len(compose_clips) = 1 THEN SceneClipId(1) ELSE FinalClipId

\* _cleanup (video_composer.py lines 285-301; mixed_composer.py lines 44-52
\* and 171-196, which closes every scene clip first)
ComposeCleanup ==
    /\ compose_pc = "cleanup"
    /\ stages' = Append(stages, "cleanup")
    /\ closed' = closed
                 \cup (IF compose_class = "MixedComposer"
                       THEN {SceneClipId(k) : k \in 1..Len(compose_clips)} ELSE {})
                 \cup {FinalVideoId}
                 \cup (IF final_video.has_audio THEN {AudioClipId} ELSE {})
    /\ compose_pc' = StageAfter("cleanup")
    /\ UNCHANGED <<compose_class, compose_config, compose_clips, final_video, opened,
                   output_file, compose_error,
                   textVars, sceneVars, timelineVars, animVars, cliVars,
                   positionVars, videoVars,
                   extraVars>>

NextCompose ==
    \/ ComposeBuildScene \/ ComposeScenesBuilt \/ ComposeTransitions
    \/ ComposeAudio \/ ComposeFinalEffects \/ ComposeExport \/ ComposeCleanup
SpecCompose == InitCompose /\ [][NextCompose]_vars

\* ------------------------------------------ TextAnimator._parse_position,
\* ------------------------------------------ helpers.parse_position
\* A coordinate of a [x, y] position is a string, a float or an int; a
\* number is kept as twice its value, so that the halves are integers.
StrCoordinate(str) == [kind |-> "str", str |-> str, twice |-> 0]
FloatCoordinate(twice) == [kind |-> "float", str |-> "", twice |-> twice]
IntCoordinate(n) == [kind |-> "int", str |-> "", twice |-> 2 * n]

\* for a side of the frame: 'center', '50%', the fraction 0.5, the pixel
\* int side // 2 and the pixel float side / 2
Coordinates(side) ==
    {StrCoordinate("center"), StrCoordinate("50%"), FloatCoordinate(1),
     IntCoordinate(side \div 2), FloatCoordinate(side)}
Widths == 1..MaxFrameSide \cup {640, 1184}
Heights == 1..MaxFrameSide \cup {360, 864}
StrPosition(str) == [NoPosition EXCEPT !.str = str]
Positions(width, height) ==
    {StrPosition("center"), StrPosition("middle")}
    \cup {[is_list |-> TRUE, str |-> "", x |-> cx, y |-> cy] :
            cx \in Coordinates(width), cy \in Coordinates(height)}

\* '%' in x, and float(x.rstrip('%')), of the strings drawn
HasPercent(str) == str = "50%"
Percent(str) == IF str = "50%" THEN 50 ELSE 0

\* an animator that rounds a fraction of the side to the nearest pixel
animator_axis_rounds(side, c) ==
    IF c.kind = "str" /\ c.str = "center" THEN side \div 2
    ELSE IF c.kind = "float" /\ c.twice <= 2 THEN (side * c.twice + 1) \div 2
    ELSE IF c.kind = "int" THEN c.twice \div 2
    ELSE side \div 2

\* text_animator_v2.py lines 397-405 (x) and 407-415 (y)
animator_axis(side, c) ==
    IF c.kind = "str" /\ c.str = "center" THEN side \div 2
    ELSE IF c.kind = "float" /\ c.twice <= 2 THEN (side * c.twice) \div 2
    ELSE IF c.kind = "int" THEN c.twice \div 2
    ELSE side \div 2

\* text_animator_v2.py lines 383-420
animator_parse_position(pos, width, height) ==
    IF ~pos.is_list THEN <<width \div 2, height \div 2>>
    ELSE <<animator_axis(width, pos.x), animator_axis(height, pos.y)>>

\* helpers.py lines 81-87 (x) and 89-94 (y), then int() of line 96
helpers_axis(side, c) ==
    LET twice == IF c.kind = "str" /\ HasPercent(c.str)
                 THEN (2 * side * Percent(c.str)) \div 100
                 ELSE IF c.kind = "float" /\ c.twice <= 2 THEN side * c.twice
                 ELSE IF c.kind = "str" /\ c.str = "center" THEN 2 * (side \div 2)
                 ELSE c.twice
    IN twice \div 2

\* helpers.py lines 59-98
parse_position(pos, fsize) ==
    IF ~pos.is_list THEN <<fsize[1] \div 2, fsize[2] \div 2>>
    ELSE <<helpers_axis(fsize[1], pos.x), helpers_axis(fsize[2], pos.y)>>

InitPosition ==
    /\ frame_size \in Widths \X Heights
    /\ position \in Positions(frame_size[1], frame_size[2])
    /\ animator_xy = <<0, 0>> /\ helpers_xy = <<0, 0>> /\ pos_pc = {}
    /\ IdleText /\ IdleScene /\ IdleTimeline /\ IdleAnimator /\ IdleCli
    /\ IdleCompose /\ IdleVideo /\ IdleExtra

\* create_animated_text: self._parse_position(position)
AnimatorParsePosition ==
    /\ "animator" \notin pos_pc
    /\ animator_xy' = animator_parse_position(position, frame_size[1], frame_size[2])
    /\ pos_pc' = pos_pc \cup {"animator"}
    /\ UNCHANGED <<frame_size, position, helpers_xy, textVars, sceneVars,
                   timelineVars, animVars, cliVars, composeVars, videoVars,
                   extraVars>>

\* _create_image_overlay: parse_position(position, (self.width, self.height))
HelpersParsePosition ==
    /\ "helpers" \notin pos_pc
    /\ helpers_xy' = parse_position(position, frame_size)
    /\ pos_pc' = pos_pc \cup {"helpers"}
    /\ UNCHANGED <<frame_size, position, animator_xy, textVars, sceneVars,
                   timelineVars, animVars, cliVars, composeVars, videoVars,
                   extraVars>>

NextPosition == AnimatorParsePosition \/ HelpersParsePosition
SpecPosition == InitPosition /\ [][NextPosition]_vars

\* ------------------------------------------ VideoUtils.load_video,
\* ------------------------------------------ MixedSceneBuilder.build_scene
\* a video scene: the length of the file, 'video_start', 'video_end',
\* 'video_speed' (kept as twice its value: 0.5, 1.0, 2.0) and 'duration'
VideoConfigs ==
    {[has_duration |-> hd, duration |-> IF hd THEN d ELSE 0, natural |-> n,
      video_start |-> st, has_video_end |-> he, video_end |-> IF he THEN en ELSE 0,
      video_speed_x2 |-> sp] :
        hd \in BOOLEAN, d \in {0, 3 * Sec, 12 * Sec}, n \in {4 * Sec, 10 * Sec},
        st \in {0, Sec}, he \in BOOLEAN, en \in {3 * Sec, 12 * Sec},
        sp \in {1, 2, 4}}

\* a builder that gives a video scene without 'duration' the base duration
TargetDurationDefaulted(scene_config) ==
    IF scene_config.has_duration /\ scene_config.duration > 0
    THEN [given |-> TRUE, value |-> scene_config.duration]
    ELSE [given |-> TRUE, value |-> base_duration]

\* mixed_scene_builder.py lines 33-41: the explicit duration, or None
TargetDuration(scene_config) ==
    IF scene_config.has_duration /\ scene_config.duration > 0
    THEN [given |-> TRUE, value |-> scene_config.duration]
    ELSE [given |-> FALSE, value |-> 0]

InitVideo ==
    /\ video_config \in VideoConfigs
    /\ video_clip = NoVideoClip /\ video_ops = <<>> /\ video_duration = 0
    /\ video_pc = "load"
    /\ IdleText /\ IdleScene /\ IdleTimeline /\ IdleAnimator /\ IdleCli
    /\ IdleCompose /\ IdlePosition /\ IdleExtra

\* video_utils.py line 23: clip = mp.VideoFileClip(video_path)
LoadVideoOpen ==
    /\ video_pc = "load"
    /\ video_clip' = [duration |-> video_config.natural]
    /\ video_pc' = "trim"
    /\ UNCHANGED <<video_config, video_ops, video_duration, textVars, sceneVars,
                   timelineVars, animVars, cliVars, composeVars, positionVars,
                   extraVars>>

\* lines 26-29: subclip(start_time, min(end_time, clip.duration)), or
\* subclip(start_time, clip.duration) for a positive start_time
LoadVideoTrim ==
    /\ video_pc = "trim"
    /\ IF video_config.has_video_end /\ video_config.video_end # 0
       THEN /\ video_clip' = [duration |-> Min(video_config.video_end, video_clip.duration)
                                          - video_config.video_start]
            /\ video_ops' = Append(video_ops, "trim")
       ELSE IF video_config.video_start > 0
       THEN /\ video_clip' = [duration |-> video_clip.duration - video_config.video_start]
            /\ video_ops' = Append(video_ops, "trim")
       ELSE UNCHANGED <<video_clip, video_ops>>
    /\ video_pc' = "speed"
    /\ UNCHANGED <<video_config, video_duration, textVars, sceneVars,
                   timelineVars, animVars, cliVars, composeVars, positionVars,
                   extraVars>>

\* lines 32-34: clip.fx(speedx, speed) divides the duration by speed
LoadVideoSpeed ==
    /\ video_pc = "speed"
    /\ IF video_config.video_speed_x2 # 2
       THEN /\ video_clip' = [duration |-> (2 * video_clip.duration)
                                          \div video_config.video_speed_x2]
            /\ video_ops' = Append(video_ops, "speed")
       ELSE UNCHANGED <<video_clip, video_ops>>
    /\ video_pc' = "adjust"
    /\ UNCHANGED <<video_config, video_duration, textVars, sceneVars,
                   timelineVars, animVars, cliVars, composeVars, positionVars,
                   extraVars>>

\* lines 37-54: loop and cut, or cut, to target_duration when one is given
LoadVideoAdjust ==
    /\ video_pc = "adjust"
    /\ LET target_duration == TargetDuration(video_config)
           current_duration == video_clip.duration
       IN IF target_duration.given /\ current_duration < target_duration.value
          THEN LET loops_needed == (target_duration.value \div current_duration) + 1 IN
               /\ video_clip' = [duration |-> Min(loops_needed * current_duration,
                                                  target_duration.value)]
               /\ video_ops' = video_ops \o <<"loop", "truncate">>
          ELSE IF target_duration.given /\ current_duration > target_duration.value
          THEN /\ video_clip' = [duration |-> target_duration.value]
               /\ video_ops' = Append(video_ops, "truncate")
          ELSE UNCHANGED <<video_clip, video_ops>>
    /\ video_pc' = "loaded"
    /\ UNCHANGED <<video_config, video_duration, textVars, sceneVars,
                   timelineVars, animVars, cliVars, composeVars, positionVars,
                   extraVars>>

\* mixed_scene_builder.py lines 49-63: the scene lasts the explicit
\* duration, or as long as the clip load_video returned
VideoSceneDuration ==
    /\ video_pc = "loaded"
    /\ video_duration' = IF TargetDuration(video_config).given
                         THEN TargetDuration(video_config).value
                         ELSE video_clip.duration
    /\ video_pc' = "built"
    /\ UNCHANGED <<video_config, video_clip, video_ops, textVars, sceneVars,
                   timelineVars, animVars, cliVars, composeVars, positionVars,
                   extraVars>>

NextVideo ==
    \/ LoadVideoOpen \/ LoadVideoTrim \/ LoadVideoSpeed \/ LoadVideoAdjust
    \/ VideoSceneDuration
SpecVideo == InitVideo /\ [][NextVideo]_vars

\* ------------------------------------------ motion.create_parallax_effect
\* depth is a percentage (0.05 is 5); times are eighths of the duration;
\* offsets are fractions over ParallaxDen
ParallaxWidths == {640, 1184, 1920}
ParallaxDepths == {1, 5, 10}
ParallaxDurations == {2 * Sec, 4 * Sec}
ParallaxDen == 12800

\* easing.py line 13, ease_in_out_cubic, the 'motion' preset, at q/8, in 128ths
ease_in_out_cubic_128(q) ==
    IF 2 * q < 8 THEN q * q * q ELSE 128 - (8 - q) * (8 - q) * (8 - q)

\* line 83: x_offset = w * depth * (progress - 0.5) * 2, over ParallaxDen
x_offset(q) ==
    parallax_args.w * parallax_args.depth_pct * (2 * ease_in_out_cubic_128(q) - 128)

InitParallax ==
    /\ parallax_args \in [w : ParallaxWidths, h : {864}, duration : ParallaxDurations,
                          depth_pct : ParallaxDepths]
    /\ zoomed = <<0, 0>> /\ parallax_pos = NoParallaxPos /\ parallax_pc = "call"
    /\ IdleText /\ IdleScene /\ IdleTimeline /\ IdleAnimator /\ IdleCli
    /\ IdleCompose /\ IdlePosition /\ IdleVideo /\ IdleReload /\ IdleWait

\* lines 76-77 and 86-87: zoomed = clip.resize(1.0 + depth * 2); resize
\* truncates the new size to whole pixels
CreateParallaxEffect ==
    /\ parallax_pc = "call"
    /\ zoomed' = <<(parallax_args.w * (100 + 2 * parallax_args.depth_pct)) \div 100,
                   (parallax_args.h * (100 + 2 * parallax_args.depth_pct)) \div 100>>
    /\ parallax_pc' = "returned"
    /\ UNCHANGED <<parallax_args, parallax_pos, textVars, sceneVars, timelineVars,
                   animVars, cliVars, composeVars, positionVars, videoVars,
                   reloadVars, waitVars>>

\* lines 79-84: get_position(t), called while the scene is rendered
GetPosition ==
    /\ parallax_pc = "returned"
    /\ \E q \in 0..8 :
          parallax_pos' = [called |-> TRUE, t |-> (q * parallax_args.duration) \div 8,
                           x_num |-> x_offset(q), y |-> "center"]
    /\ UNCHANGED <<parallax_args, zoomed, parallax_pc, textVars, sceneVars,
                   timelineVars, animVars, cliVars, composeVars, positionVars, videoVars,
                   reloadVars, waitVars>>

NextParallax == CreateParallaxEffect \/ GetPosition
SpecParallax == InitParallax /\ [][NextParallax]_vars

\* ------------------------------------------ veo_direct.wait_for_completion
\* (unused_old_veo_python_files/video_generator.py lines 87-133 is the same
\* loop). An operation is done or not; a done one carries an error or not
\* and a response: none, one without a generated video, or one with a video.
max_polls == 60
Operations ==
    {NoOperation}
    \cup [done : {TRUE}, error : BOOLEAN, response : {"none", "empty", "video"}]

InitWait ==
    /\ operation \in Operations /\ poll_count = 0
    /\ wait_returned = "nothing" /\ wait_pc = "loop"
    /\ IdleText /\ IdleScene /\ IdleTimeline /\ IdleAnimator /\ IdleCli
    /\ IdleCompose /\ IdlePosition /\ IdleVideo /\ IdleParallax /\ IdleReload

\* lines 289-298: one iteration in which operations.get returns
Poll ==
    /\ wait_pc = "loop" /\ ~operation.done /\ poll_count < max_polls
    /\ poll_count' = poll_count + 1
    /\ operation' \in Operations
    /\ UNCHANGED <<wait_returned, wait_pc, textVars, sceneVars, timelineVars, animVars,
                   cliVars, composeVars, positionVars, videoVars, parallaxVars,
                   reloadVars>>

\* lines 289-302: one iteration in which operations.get raises; `continue`
PollRaises ==
    /\ wait_pc = "loop" /\ ~operation.done /\ poll_count < max_polls
    /\ poll_count' = poll_count + 1
    /\ UNCHANGED <<operation, wait_returned, wait_pc, textVars, sceneVars, timelineVars,
                   animVars, cliVars, composeVars, positionVars, videoVars,
                   parallaxVars, reloadVars>>

\* lines 304-326: after the loop
AfterLoop ==
    /\ wait_pc = "loop" /\ ~(~operation.done /\ poll_count < max_polls)
    /\ wait_returned' =
          IF poll_count >= max_polls THEN "None_timeout"
          ELSE IF operation.error THEN "None_error"
          ELSE IF operation.response = "video" THEN "video_uri"
          ELSE IF operation.response = "empty" THEN "None_extraction"
          ELSE "None_no_response"
    /\ wait_pc' = "returned"
    /\ UNCHANGED <<operation, poll_count, textVars, sceneVars, timelineVars, animVars,
                   cliVars, composeVars, positionVars, videoVars, parallaxVars,
                   reloadVars>>

NextWait == Poll \/ PollRaises \/ AfterLoop
SpecWait == InitWait /\ [][NextWait]_vars

\* ======================================================================
\* Properties
\* ======================================================================

\* the number of whitespace-separated tokens of a string: the positions where
\* a non-whitespace character follows the start or a whitespace character
TokenCount(s) ==
    Cardinality({k \in 1..Len(s) :
        s[k] \notin Whitespace /\ (k = 1 \/ s[k - 1] \in Whitespace)})

SetMax(S) == CHOOSE m \in S : \A x \in S : x <= m

ExplicitDuration(sd) == sd.has_duration /\ sd.duration > 0
TextOverlays(sd) ==
    {get_overlays(sd)[k] : k \in {j \in 1..Len(get_overlays(sd)) :
                                    get_overlays(sd)[j].type = "text"}}
SceneTimed ==
    scene_pc \in {"timed", "background", "layered", "built", "composite_raised"}

\* the resolved timeline: the placed clips, or the single clip returned as is
Timeline ==
    IF Len(scene_clips) = 1
    THEN <<PlacedClip(final_clip.start, final_clip.duration)>>
    ELSE timeline_clips

SupportedTransitions == {"fade", "crossfade", "slide", "slideIn", "zoom"}

\* the transition duration the composer computes for scene k (line 114)
AppliedDuration(k) == TransDuration(scene_clips[k].transition, scene_clips[k].duration)

\* C1: in the resolved timeline the first scene starts at 0, a scene without
\* a transition starts at start[k-1] + duration[k-1], and a scene declaring a
\* transition of a supported kind (crossfade, slide, zoom) with applied
\* duration d starts at start[k-1] + duration[k-1] - d.
C1_TransitionOverlapLaw ==
    tl_pc = "done" =>
        /\ Timeline[1].start = 0
        /\ \A k \in 2..Len(scene_clips) :
             IF scene_clips[k].has_transition
             THEN scene_clips[k].transition.type \in SupportedTransitions =>
                    Timeline[k].start = ClipEnd(Timeline[k - 1]) - AppliedDuration(k)
             ELSE Timeline[k].start = ClipEnd(Timeline[k - 1])

\* C2: the overlap applied between adjacent scenes k-1 and k never exceeds
\* half of the shorter of the two scenes' durations.
C2_ClampToShorterScene ==
    tl_pc = "done" =>
        \A k \in 2..Len(scene_clips) :
            2 * (ClipEnd(Timeline[k - 1]) - Timeline[k].start)
                <= Min(Timeline[k - 1].duration, Timeline[k].duration)

\* C3: the composed video's duration is the end time of the last timeline
\* entry; scenes of 5 s and 6 s joined by a 1 s crossfade resolve to 10 s
\* with scene 2 starting at 4 s.
ScenarioC ==
    /\ composer = "video" /\ Len(scene_clips) = 2
    /\ scene_clips[1].duration = 5 * Sec /\ scene_clips[2].duration = 6 * Sec
    /\ scene_clips[2].has_transition
    /\ scene_clips[2].transition.type \in {"fade", "crossfade"}
    /\ scene_clips[2].transition.has_duration
    /\ scene_clips[2].transition.duration = Sec

C3_TotalDurationIsLastEnd ==
    tl_pc = "done" =>
        /\ final_clip.duration = ClipEnd(Timeline[Len(Timeline)])
        /\ (ScenarioC => final_clip.duration = 10 * Sec /\ Timeline[2].start = 4 * Sec)

\* the 5 s + 6 s scenario with a 1 s crossfade was resolved to 10 s
C3_Witness ==
    /\ tl_pc = "done" /\ ScenarioC
    /\ Len(timeline_clips) = 2
    /\ timeline_clips[2].start = 4 * Sec
    /\ final_clip.duration = 10 * Sec

\* round(num / den) for num >= 0, den > 0, ties to even as Python rounds
Round(num, den) ==
    LET q == num \div den
        r == num % den
    IN IF 2 * r < den THEN q
       ELSE IF 2 * r > den THEN q + 1
       ELSE IF q % 2 = 0 THEN q ELSE q + 1

\* C4: for scene duration D and frame rate F and every animation kind the
\* Animator generates exactly round(D*F) frames, each a canvas of exactly the
\* frame size whatever the size of the text image.
C4_FrameCountIsRound ==
    anim_pc = "done" =>
        /\ Len(frames) = Round(anim_args.duration * animator.fps, Sec)
        /\ \A k \in 1..Len(frames) :
             frames[k].size = <<animator.width, animator.height>>

\* the phase C5 assigns to frame index idx, with rounded frame boundaries
ClaimedPhase(idx) ==
    LET start_frame == Round(anim_args.start_time * animator.fps, Sec)
        anim_frames == Round(AnimTenths(generator) * animator.fps, 10)
    IN IF idx < start_frame THEN "blank"
       ELSE IF idx < start_frame + anim_frames THEN "animating"
       ELSE "steady"

\* C5: with start_frame = round(start_time*fps) and anim_frames =
\* round(anim_duration*fps), frame i is blank before start_frame, animating
\* with progress (i - start_frame)/anim_frames up to start_frame+anim_frames,
\* and the unmodified image at its final position from then on; the phases
\* come in that order; at fps 30, start_time 0.5, Fade: frames 0..14 blank,
\* 15..38 fading, 39.. steady.
C5_ThreePhases ==
    anim_pc = "done" =>
        /\ \A k \in 1..Len(frames) :
             /\ frames[k].phase = ClaimedPhase(k - 1)
             /\ (frames[k].phase = "animating" =>
                    frames[k].progress =
                        <<k - 1 - Round(anim_args.start_time * animator.fps, Sec),
                          Round(AnimTenths(generator) * animator.fps, 10)>>)
             /\ (frames[k].phase = "steady" =>
                    /\ frames[k].x = anim_args.pos_x - (anim_args.img_w \div 2)
                    /\ frames[k].y = anim_args.pos_y - (anim_args.img_h \div 2))
        /\ \A j, k \in 1..Len(frames) :
             (j < k /\ frames[j].phase = "steady") => frames[k].phase = "steady"
        /\ (animator.fps = 30 /\ 2 * anim_args.start_time = Sec /\ generator = "fade") =>
             \A k \in 1..Len(frames) :
                frames[k].phase = IF k - 1 <= 14 THEN "blank"
                                  ELSE IF k - 1 <= 38 THEN "animating"
                                  ELSE "steady"

\* C6 (as stated): calculate_scene_duration returns the explicit duration
\* unchanged when one is set and positive, and otherwise always returns a
\* value within [4.0, 10.0] seconds.
C6_DurationWithin4And10 ==
    SceneTimed =>
        /\ (ExplicitDuration(scene_data) => scene_duration = scene_data.duration)
        /\ (~ExplicitDuration(scene_data) =>
                4 * Sec <= scene_duration /\ scene_duration <= 10 * Sec)

\* C6 (amended): calculate_scene_duration returns the explicit duration
\* unchanged when one is set and positive, and otherwise every value it
\* returns is within [4.5, 11.0] seconds.
C6_DurationWithinBounds ==
    SceneTimed =>
        /\ (ExplicitDuration(scene_data) => scene_duration = scene_data.duration)
        /\ (~ExplicitDuration(scene_data) =>
                2 * scene_duration >= 9 * Sec /\ scene_duration <= 11 * Sec)

\* a ten-word text overlay without explicit duration resolves to 11.0 s
C6_Witness ==
    /\ SceneTimed /\ ~ExplicitDuration(scene_data)
    /\ \E ov \in TextOverlays(scene_data) : ov.has_text /\ TokenCount(ov.text) = 10
    /\ scene_duration = 11 * Sec

\* C7: with no explicit positive duration, a scene without any text overlay
\* (no overlays at all, or only image overlays) resolves to exactly 4.5 s.
C7_NoTextIs4500ms ==
    (SceneTimed /\ ~ExplicitDuration(scene_data) /\ TextOverlays(scene_data) = {})
        => 2 * scene_duration = 9 * Sec

\* C8 (as stated): with no explicit positive duration, a scene with at least
\* one text overlay resolves to exactly the maximum text_duration over its
\* text overlays plus 1.0 s.
C8_MaxTextPlusOne ==
    (SceneTimed /\ ~ExplicitDuration(scene_data) /\ TextOverlays(scene_data) # {})
        => scene_duration =
             SetMax({calculate_text_duration(ov.text) : ov \in TextOverlays(scene_data)})
             + Sec

\* C8 (amended): with no explicit positive duration, a scene with at least
\* one text overlay resolves to exactly the larger of 4.5 s and the maximum
\* text_duration over its text overlays, plus 1.0 s.
C8_MaxTextOrBasePlusOne ==
    (SceneTimed /\ ~ExplicitDuration(scene_data) /\ TextOverlays(scene_data) # {})
        => 2 * scene_duration =
             2 * SetMax({calculate_text_duration(ov.text) : ov \in TextOverlays(scene_data)}
                        \cup {(9 * Sec) \div 2})
             + 2 * Sec

\* two text overlays, the longer first, one of them below the 4.5 s base
C8_Witness ==
    /\ SceneTimed /\ ~ExplicitDuration(scene_data)
    /\ Len(get_overlays(scene_data)) = 2
    /\ get_overlays(scene_data)[1].type = "text"
    /\ get_overlays(scene_data)[2].type = "text"
    /\ TokenCount(get_overlays(scene_data)[1].text) = 8
    /\ TokenCount(get_overlays(scene_data)[2].text) = 1
    /\ scene_duration > 10 * Sec

\* C9: text_duration(text) = word_count/1.8 + 1.5 + 0.4*word_count clamped to
\* [4.0, 10.0], word_count the number of whitespace-separated tokens; empty
\* or whitespace-only text gives 4.0; the result is non-decreasing in the
\* word count and a 10-word text gives exactly 10.0.
C9_TextDuration ==
    text_pc = "done" =>
        LET wc == TokenCount(text) IN
        /\ 90 * text_result =
             Max(360 * Sec, Min(Sec * (50 * wc + 135 + 36 * wc), 900 * Sec))
        /\ (wc = 0 => text_result = 4 * Sec)
        /\ (wc = 10 => text_result = 10 * Sec)
        /\ \A n \in 0..MaxWords :
             /\ (n <= wc => calculate_text_duration(WordsText(n)) <= text_result)
             /\ (n >= wc => calculate_text_duration(WordsText(n)) >= text_result)

\* a ten-word text was timed at the 10.0 s ceiling
C9_Witness ==
    text_pc = "done" /\ TokenCount(text) = 10 /\ text_result = 10 * Sec

\* a required field is missing: the scenes list, a text overlay's text
\* content, or an image overlay's path
MissingRequiredField(cfg) ==
    \/ ~cfg.has_scenes
    \/ \E k \in 1..Len(cfg.scenes) :
         /\ cfg.scenes[k].has_overlays
         /\ \E j \in 1..Len(cfg.scenes[k].overlays) :
              LET ov == cfg.scenes[k].overlays[j] IN
              \/ ov.type = "text" /\ ~ov.has_text /\ ~ov.has_lines
              \/ ov.type = "image" /\ ~ov.has_path

EveryOverlayTyped(cfg) ==
    \A k \in 1..Len(cfg.scenes) : \A j \in 1..Len(cfg.scenes[k].overlays) :
        cfg.scenes[k].overlays[j].has_type

Range(seq) == {seq[k] : k \in 1..Len(seq)}

\* the longest duration resolved for a scene without an explicit one
\* (max_duration of a text plus the breathing room)
LongestAutoDuration == max_duration + breathing_room

\* the start_time of a text overlay is negative, or at or past the end of
\* its scene whatever duration the scene resolves to
StartTimeOutside(sc, ov) ==
    /\ ov.has_type /\ ov.type = "text" /\ ov.has_start_time
    /\ \/ ov.start_time < 0
       \/ ov.start_time >= (IF sc.has_duration /\ sc.duration > 0
                            THEN sc.duration ELSE LongestAutoDuration)

\* C11: once load has run on a configuration with a text overlay whose
\* start_time is negative or not before the end of its scene, load has
\* failed with the validation error and nothing is composed.
C11_StartTimeOutsideSceneRejected ==
    (/\ cli_pc # "load"
     /\ \E k \in 1..Len(raw_config.scenes) :
          \E j \in 1..Len(raw_config.scenes[k].overlays) :
             StartTimeOutside(raw_config.scenes[k], raw_config.scenes[k].overlays[j]))
    => (load_error = "ValueError" /\ cli_pc = "exit_1")

\* the defects validation reports as errors
OtherError(cfg) ==
    \/ ~cfg.has_scenes \/ cfg.scenes = <<>>
    \/ \E k \in 1..Len(cfg.scenes) :
         \/ ~cfg.scenes[k].has_image_path \/ ~cfg.scenes[k].image_exists
         \/ \E j \in 1..Len(cfg.scenes[k].overlays) :
              LET ov == cfg.scenes[k].overlays[j] IN
              \/ ~ov.has_type
              \/ ov.type = "text" /\ ~ov.has_text /\ ~ov.has_lines
              \/ ov.type = "image" /\ ~ov.has_path

UnknownMotion(sc) ==
    sc.has_background_effect /\ sc.background_effect.has_type
    /\ sc.background_effect.type \notin {"static", "kenBurns", "parallax", "pulse", "zoom_pulse"}
UnknownTransition(sc) ==
    sc.has_transition /\ sc.transition.has_type
    /\ sc.transition.type \notin SupportedTransitions
UnknownAnimation(ov) ==
    ov.has_type /\ ov.type = "text" /\ ov.has_animation
    /\ ov.animation \notin {"fade_in", "slide_bottom", "slide_top", "slide_left",
                            "slide_right", "scale_in", "grow", "typewriter",
                            "word_by_word", "AnimateTextFromLeft",
                            "AnimateTextGrowFromCenter", "AnimateTextFadeInWordByWord"}

\* C12: once load has run, it has failed exactly when the configuration has
\* another defect (a missing field or background image); every unknown
\* motion effect, transition or animation kind has a warning and no error,
\* and in the configuration load returns it is replaced by static, fade or
\* fade_in respectively.
C12_UnknownKindNeverFatal ==
    cli_pc # "load" =>
        /\ (load_error = "none") <=> ~OtherError(raw_config)
        /\ Range(errors) \cap {"unknown_motion", "unknown_transition",
                               "unknown_animation"} = {}
        /\ \A k \in 1..Len(raw_config.scenes) :
             LET sc == raw_config.scenes[k] IN
             /\ UnknownMotion(sc) =>
                  /\ "unknown_motion" \in Range(warnings)
                  /\ load_error = "none" =>
                        loaded_config.scenes[k].background_effect.type = "static"
             /\ UnknownTransition(sc) =>
                  /\ "unknown_transition" \in Range(warnings)
                  /\ load_error = "none" =>
                        loaded_config.scenes[k].transition.type = "fade"
             /\ \A j \in 1..Len(sc.overlays) :
                  UnknownAnimation(sc.overlays[j]) =>
                      /\ "unknown_animation" \in Range(warnings)
                      /\ load_error = "none" =>
                            loaded_config.scenes[k].overlays[j].animation = "fade_in"

\* load has accepted a scene with the unknown kinds spin, wipe and bounce,
\* recorded the three warnings and returned static, fade and fade_in
C12_Witness ==
    /\ cli_pc = "compose" /\ load_error = "none" /\ errors = <<>>
    /\ Len(raw_config.scenes) = 1 /\ Len(raw_config.scenes[1].overlays) >= 1
    /\ raw_config.scenes[1].background_effect.type = "spin"
    /\ raw_config.scenes[1].transition.type = "wipe"
    /\ raw_config.scenes[1].overlays[1].animation = "bounce"
    /\ Range(warnings) = {"unknown_motion", "unknown_transition", "unknown_animation"}
    /\ loaded_config.scenes[1].background_effect.type = "static"
    /\ loaded_config.scenes[1].transition.type = "fade"
    /\ loaded_config.scenes[1].overlays[1].animation = "fade_in"

MissingAudio(cfg) == cfg.has_audio_path /\ ~cfg.audio_exists

\* C14 as stated: once load has run on a configuration whose audio_path
\* names a file that does not exist, load has failed with the validation
\* error.
C14_MissingAudioIsHardError ==
    (cli_pc # "load" /\ MissingAudio(raw_config)) =>
        (load_error = "ValueError" /\ cli_pc = "exit_1")

\* C14: an audio_path naming a file that does not exist is reported as one
\* warning and never as an error: load fails exactly when the configuration
\* has another defect, and otherwise returns the configuration.
C14_MissingAudioIsWarning ==
    (cli_pc # "load" /\ MissingAudio(raw_config)) =>
        /\ Cardinality({k \in 1..Len(warnings) : warnings[k] = "audio_not_found"}) = 1
        /\ "audio_not_found" \notin Range(errors)
        /\ (load_error = "none") <=> ~OtherError(raw_config)
        /\ load_error = "none" => loaded_config = ProcessedConfig(raw_config)

\* load has accepted a configuration whose only defect is the missing
\* audio file, and the render went on to export
C14_Witness ==
    /\ MissingAudio(raw_config) /\ load_error = "none"
    /\ warnings = <<"audio_not_found">> /\ errors = <<>>
    /\ exported

\* ------------------------------------------------------------ build_scene
\* the scene has an image overlay whose file does not exist
MissingOverlayImage(sd) ==
    \E j \in 1..Len(get_overlays(sd)) :
        get_overlays(sd)[j].type = "image" /\ ~get_overlays(sd)[j].path_exists

\* the overlays of the scene that are not images with a missing file
RemainingOverlays(sd) ==
    SelectSeq(get_overlays(sd), LAMBDA ov : ov.type = "text" \/ ov.path_exists)

\* C13: once the overlays of a scene with a missing overlay image have been
\* created, the layers handed to the compositor are the background and one
\* clip per remaining overlay, none of them a placeholder, and the
\* compositor does not fail on them.
C13_MissingOverlaySkipped ==
    (scene_pc \in {"layered", "built", "composite_raised"}
     /\ MissingOverlayImage(scene_data)) =>
        /\ \A k \in 1..Len(all_clips) : all_clips[k].kind # "None"
        /\ Len(all_clips) = 1 + Len(RemainingOverlays(scene_data))
        /\ scene_pc # "composite_raised"

\* the scene asks for no motion: no 'background_effect', one without
\* 'type', or the static one
StaticBackground(sd) ==
    \/ ~sd.has_background_effect
    \/ ~sd.background_effect.has_type
    \/ sd.background_effect.type = "static"

\* the image cropped to fill the frame, shown for the scene's duration
SourceClip(duration) ==
    [kind |-> "background", duration |-> duration, resize |-> "none", position |-> "none"]

\* C17: apply_motion_effect returns its clip unchanged for the static effect
\* and for an effect without 'type'; and the background of a scene that
\* asks for no motion is the source clip with no scale and no position
\* function attached, in the background step and in every later one.
C17_StaticIsIdentity ==
    /\ apply_motion_effect(SourceClip(scene_duration), [has_type |-> TRUE, type |-> "static"])
         = SourceClip(scene_duration)
    /\ apply_motion_effect(SourceClip(scene_duration), NoEffect) = SourceClip(scene_duration)
    /\ (scene_pc \in {"background", "layered", "built", "composite_raised"}
        /\ StaticBackground(scene_data)) =>
            /\ background_clip = SourceClip(scene_duration)
            /\ background_clip.resize = "none" /\ background_clip.position = "none"

\* a scene with {'type': 'static'} has been built: its background carries no
\* function, and it is the first of the composited layers
C17_Witness ==
    /\ scene_pc = "built"
    /\ scene_data.has_background_effect /\ scene_data.background_effect.type = "static"
    /\ scene_duration > 0
    /\ background_clip = SourceClip(scene_duration)
    /\ all_clips[1] = background_clip

\* ---------------------------------------------------------------- compose
\* C15: when compose has raised after opening clips, the file at
\* output_path is absent and close() has been called on every clip opened.
C15_FailureReleasesEverything ==
    (compose_pc = "raised" /\ opened # {}) =>
        /\ compose_error # "none"
        /\ output_file = "absent"
        /\ opened \subseteq closed

\* the position of a stage in the order the claim gives
StageRank(stage) ==
    CASE stage = "build" -> 1
      [] stage = "transitions" -> 2
      [] stage = "audio" -> 3
      [] stage = "effects" -> 4
      [] stage = "export" -> 5
      [] stage = "cleanup" -> 6

SomeSceneFails(cfg) == \E k \in 1..Len(cfg.scenes) : ~cfg.scenes[k].builds

\* C18: the stages compose has run are in the order build, transitions,
\* audio, effects, export, cleanup, each at most once but for the per-scene
\* builds; transitions run only when every scene clip is built, audio (if
\* an audio_path is set) before the fades, the fades before export; and
\* with a scene whose build fails nothing but builds ever runs, compose
\* raises from the build and no file is written.
C18_StagesInOrder ==
    /\ \A a, b \in 1..Len(stages) :
         a < b => /\ StageRank(stages[a]) <= StageRank(stages[b])
                  /\ stages[a] = stages[b] => stages[a] = "build"
    /\ "transitions" \in Range(stages) =>
         /\ Len(compose_clips) = Len(compose_config.scenes)
         /\ Cardinality({k \in 1..Len(stages) : stages[k] = "build"})
              = Len(compose_config.scenes)
    /\ "audio" \in Range(stages) => "transitions" \in Range(stages)
    /\ "effects" \in Range(stages) =>
         /\ "transitions" \in Range(stages)
         /\ compose_config.has_audio_path => "audio" \in Range(stages)
    /\ "export" \in Range(stages) => "effects" \in Range(stages)
    /\ "cleanup" \in Range(stages) => output_file = "complete"
    /\ SomeSceneFails(compose_config) =>
         /\ Range(stages) \subseteq {"build"}
         /\ compose_pc \in {"build", "raised"}
         /\ compose_pc = "raised" => compose_error = "build"
         /\ final_video = NoFinalVideo /\ output_file = "absent"

\* compose has returned after two builds and each later stage once, with
\* the audio attached and both fades applied
C18_Witness ==
    /\ compose_pc = "returned"
    /\ stages = <<"build", "build", "transitions", "audio", "effects", "export",
                  "cleanup">>
    /\ final_video.has_audio /\ final_video.fadein > 0 /\ final_video.fadeout > 0
    /\ output_file = "complete"

\* C19: whenever an audio track is attached its duration is the video's; a
\* track shorter than the video was looped, a longer one was not, and in
\* both cases it ends with the 1.5 s fade-out, with either composer.
C19_AudioFitsVideoWithFade ==
    final_video.has_audio =>
        /\ final_video.audio.duration = final_video.duration
        /\ compose_config.audio_duration < final_video.duration =>
              (final_video.audio.loops >= 2 /\ final_video.audio.fadeout = (3 * Sec) \div 2)
        /\ compose_config.audio_duration > final_video.duration =>
              (final_video.audio.loops = 1 /\ final_video.audio.fadeout = (3 * Sec) \div 2)

\* --------------------------------------------------------------- positions
\* the coordinate denotes the middle of the side in one of the three ways
\* of the claim: the literal center, the fraction 0.5, the pixel int
Middle(c, side) ==
    \/ c.kind = "str" /\ c.str = "center"
    \/ c.kind = "float" /\ c.twice = 1
    \/ c.kind = "int" /\ c.twice = 2 * (side \div 2)

MiddlePosition ==
    \/ ~position.is_list /\ position.str = "center"
    \/ /\ position.is_list
       /\ Middle(position.x, frame_size[1]) /\ Middle(position.y, frame_size[2])

\* C16: for every frame size, the position "center", the pair [0.5, 0.5],
\* the pixel pair [width // 2, height // 2] and every pair mixing these per
\* axis are parsed to (width // 2, height // 2) by the animator's parser
\* and by helpers.parse_position.
C16_CenterParsesAlike ==
    MiddlePosition =>
        /\ "animator" \in pos_pc =>
              animator_xy = <<frame_size[1] \div 2, frame_size[2] \div 2>>
        /\ "helpers" \in pos_pc =>
              helpers_xy = <<frame_size[1] \div 2, frame_size[2] \div 2>>
        /\ pos_pc = {"animator", "helpers"} => animator_xy = helpers_xy

\* both parsers have resolved [0.5, 0.5] on a 5 x 3 frame to (2, 1)
C16_Witness ==
    /\ frame_size = <<5, 3>> /\ pos_pc = {"animator", "helpers"}
    /\ position.is_list
    /\ position.x = FloatCoordinate(1) /\ position.y = FloatCoordinate(1)
    /\ animator_xy = <<2, 1>> /\ helpers_xy = <<2, 1>>

\* ------------------------------------------------------------ video scenes
OpRank(op) ==
    CASE op = "trim" -> 1 [] op = "speed" -> 2 [] op = "loop" -> 3
      [] op = "truncate" -> 4

\* the length of the file after the trim window and the speed factor
NaturalLength(cfg) ==
    LET trim_end == IF cfg.has_video_end /\ cfg.video_end # 0
                    THEN Min(cfg.video_end, cfg.natural) ELSE cfg.natural
    IN (2 * (trim_end - cfg.video_start)) \div cfg.video_speed_x2

\* C20: the operations applied to a video background are in the order
\* trim, speed, loop, truncate; without a positive explicit duration the
\* clip is neither looped nor truncated and the scene lasts the trimmed,
\* speed-adjusted length of the file; with an explicit duration T the
\* clip is looped and truncated when shorter, truncated when longer, left
\* alone when equal, and clip and scene last exactly T.
C20_VideoDurationPolicy ==
    /\ \A a, b \in 1..Len(video_ops) :
         a < b => OpRank(video_ops[a]) < OpRank(video_ops[b])
    /\ video_pc \in {"loaded", "built"} =>
         IF video_config.has_duration /\ video_config.duration > 0
         THEN /\ video_clip.duration = video_config.duration
              /\ ("loop" \in Range(video_ops))
                   <=> NaturalLength(video_config) < video_config.duration
              /\ ("truncate" \in Range(video_ops))
                   <=> NaturalLength(video_config) # video_config.duration
              /\ video_pc = "built" => video_duration = video_config.duration
         ELSE /\ Range(video_ops) \cap {"loop", "truncate"} = {}
              /\ video_clip.duration = NaturalLength(video_config)
              /\ video_pc = "built" => video_duration = NaturalLength(video_config)

\* a 10 s file cut to [1 s, 3 s], played at half speed (4 s), has been
\* looped and cut to the explicit 12 s of its scene
C20_Witness ==
    /\ video_pc = "built"
    /\ video_config.natural = 10 * Sec /\ video_config.video_start = Sec
    /\ video_config.video_end = 3 * Sec /\ video_config.video_speed_x2 = 1
    /\ video_config.duration = 12 * Sec
    /\ video_ops = <<"trim", "speed", "loop", "truncate">>
    /\ video_clip.duration = 12 * Sec /\ video_duration = 12 * Sec


\* ---------------------------------------------------------------- C21
\* effects/easing.py line 17, ease_in_out_quad, the 'transition' preset (line
\* 46), at the quarter q/4 of the window, in sixteenths
ease_in_out_quad_16(q) == IF 2 * q < 4 THEN 2 * q * q ELSE 16 - 2 * (4 - q) * (4 - q)

Abs(n) == IF n < 0 THEN 0 - n ELSE n

SlideClips == {k \in 1..Len(timeline_clips) : timeline_clips[k].position = "slide_func"}

OwnTransDuration(k) == TransDuration(scene_clips[k].transition, scene_clips[k].duration)

\* C21: for a slide transition with overlap d, the incoming clip's offset
\* along the slide axis is one frame width (height for a vertical edge) at
\* the start of the overlap, zero at its end, and follows the 'transition'
\* easing in between (checked at the quarters of the overlap, when the
\* timeline is rendered); the outgoing clip keeps the position it had.
C21_SlideOffsetEased ==
    (tl_pc = "done" /\ composer = "video") =>
        \A k \in SlideClips :
            LET d == OwnTransDuration(k)
                edge == from_edge(scene_clips[k].transition)
            IN
            /\ \A q \in 0..4 :
                   LET pos == slide_func(timeline_clips[k].direction, (q * d) \div 4)
                       remaining == 16 - ease_in_out_quad_16(q)
                   IN
                   /\ ~pos.raised
                   /\ IF edge \in {"left", "right"}
                      THEN /\ Abs(pos.x_num) * 16 = clip_size[1] * remaining * pos.x_den
                           /\ pos.y = 0
                      ELSE /\ Abs(pos.y) * 16 = clip_size[2] * remaining
                           /\ pos.x_num = 0
            /\ timeline_clips[k - 1].crossfadeout = 0
            /\ timeline_clips[k - 1].start + timeline_clips[k - 1].duration
                   = timeline_clips[k].start + d

\* ---------------------------------------------------------------- C23
\* C23: every scene's resolved start time is at least 0 and at least the
\* start time of the scene before it.
C23_StartsNonNegativeAndOrdered ==
    (tl_pc = "done" /\ composer = "video") =>
        \A k \in 1..Len(timeline_clips) :
            /\ timeline_clips[k].start >= 0
            /\ k > 1 => timeline_clips[k].start >= timeline_clips[k - 1].start

\* ---------------------------------------------------------------- C24
SameOffset(a, b) ==
    /\ a.raised = b.raised
    /\ a.x_num * b.x_den = b.x_num * a.x_den
    /\ a.y = b.y

\* C24: when the timeline is rendered, the slide function of every scene
\* returns, at each time t, the offset given by the transition duration and
\* the frame width of its own scene, whatever scenes were processed after it.
C24_SlideBoundToOwnScene ==
    (tl_pc = "done" /\ composer = "video") =>
        \A k \in SlideClips :
            \A q \in 0..8 :
                SameOffset(slide_func(timeline_clips[k].direction, (q * Sec) \div 4),
                           slide_lambda(timeline_clips[k].direction, clip_size[1],
                                        OwnTransDuration(k), (q * Sec) \div 4))

\* ---------------------------------------------------------------- C22
\* C22: with depth d > 0, at every time t in [0, duration] the pre-zoomed
\* background covers the frame horizontally (left edge at x <= 0, right edge
\* at or beyond the frame width) and its offset stays within +/- d * width.
C22_ParallaxCoversFrame ==
    parallax_pos.called =>
        /\ parallax_pos.x_num <= 0
        /\ parallax_pos.x_num + ParallaxDen * zoomed[1] >= ParallaxDen * parallax_args.w
        /\ Abs(parallax_pos.x_num) * 100
               <= parallax_args.depth_pct * parallax_args.w * ParallaxDen

\* ---------------------------------------------------------------- C25
\* C25: for a configuration with fps F, the animator the scene builder uses
\* is created with fps F, and the frame count of an overlay of a scene of
\* duration D is computed from F.
C25_AnimatorUsesProjectFps ==
    anim_pc \in {"loop", "done"} =>
        /\ animator.fps = composer_fps
        /\ total_frames = TotalFrames(anim_args.duration, composer_fps)

\* ---------------------------------------------------------------- C26
\* C26: every configuration that load accepts can have the duration of each
\* of its scenes computed without an error, a text overlay with 'lines' and
\* no 'text' included.
C26_AcceptedConfigHasDurations ==
    (cli_pc # "load" /\ load_error = "none") =>
        \A k \in 1..Len(raw_config.scenes) : ~SceneDurationRaises(raw_config.scenes[k])

\* ---------------------------------------------------------------- C27
\* the kinds the animator implements: one name for each generator and edge
AnimatorKinds == {"fade_in", "slide_left", "slide_right", "slide_bottom",
                  "slide_top", "scale_in", "pop"}

\* C27: a text overlay configured with a kind the animator implements keeps
\* that kind through load, so the generator dispatched for the loaded
\* configuration is the one of the configured kind.
C27_ImplementedKindSurvivesLoad ==
    (cli_pc # "load" /\ load_error = "none") =>
        \A k \in 1..Len(raw_config.scenes) :
            \A j \in 1..Len(raw_config.scenes[k].overlays) :
                LET ov == raw_config.scenes[k].overlays[j]
                    loaded == loaded_config.scenes[k].overlays[j]
                IN (ov.type = "text" /\ ov.has_animation
                    /\ ov.animation \in AnimatorKinds) =>
                        /\ loaded.animation = ov.animation
                        /\ Dispatch(loaded.animation) = Dispatch(ov.animation)

\* ---------------------------------------------------------------- C28
\* C28: a background effect of a type validation accepts without a warning,
\* other than 'static', is applied as an effect that changes the clip;
\* 'zoom_pulse' is such a type.
C28_ValidMotionIsApplied ==
    /\ "zoom_pulse" \in VALID_MOTIONS
    /\ (/\ scene_pc \in {"background", "layered", "built", "composite_raised"}
        /\ scene_data.has_background_effect
        /\ scene_data.background_effect.has_type
        /\ scene_data.background_effect.type \in VALID_MOTIONS \ {"static"}) =>
            background_clip # SourceClip(scene_duration)

\* ---------------------------------------------------------------- C29
\* C29: on an instance that has loaded before (a load that failed
\* included), loading a valid document succeeds, and the errors and warnings
\* are those of this document, none carried over.
C29_LoadDependsOnlyOnFile ==
    (/\ reloads > 0
     /\ ValidationErrors(raw_config) = <<>> /\ ~PreprocessRaises(raw_config)) =>
        /\ load_error = "none"
        /\ errors = <<>>
        /\ warnings = ValidationWarnings(raw_config)

\* ---------------------------------------------------------------- C30
\* C30: wait_for_completion polls at most 60 times and returns a timeout
\* only if the operation is still not done after the last poll; an operation
\* seen done on any poll, the 60th included, has its error and response
\* examined.
C30_TimeoutOnlyIfNotDone ==
    /\ poll_count <= max_polls
    /\ wait_pc = "returned" =>
        /\ wait_returned = "None_timeout" <=> ~operation.done
        /\ (operation.done /\ operation.error) => wait_returned = "None_error"
        /\ (operation.done /\ ~operation.error /\ operation.response = "video")
              => wait_returned = "video_uri"

=============================================================================
